---- MODULE Spec2Model ----
(***************************************************************************)
(* The AutoDS browser console: session reconciliation and debounced        *)
(* persistence (AgentConsole.tsx) and the log classifier                   *)
(* (ChatInterface.tsx).                                                    *)
(*                                                                         *)
(* Time is counted in seconds: the poll interval is 1 tick, the debounce   *)
(* quiet period 2 ticks.  Requests (fetch) are answered after any delay    *)
(* and in any order.  A React state change, the render that follows it and *)
(* the effects whose dependencies changed are one step.                    *)
(***************************************************************************)
EXTENDS Integers, Sequences, FiniteSets, TLC

\* Bounds of the model.
MaxSessions == 2
MaxLogLen == 1
MaxRuns == 1
MaxPolls == 2
MaxTimers == 2
MaxPuts == 1
MaxWatchdogs == 2
MaxStops == 1
MaxAlerts == 1
MaxFailures == 1

\* setInterval(pollStatus, 1000) and setTimeout(..., 2000), in seconds.
PollIntervalTicks == 1
DebounceTicks == 2

VARIABLES
  \* the backend (external collaborator)
  srvRunning,        \* is_running
  srvRun,            \* number of the current (or last) run
  srvLogLen,         \* length of the append-only log of that run
  srvActiveWs,       \* active_workspace, a string; <<>> is null
  store,             \* the session store: sequence of session ids
  durable,           \* durable[id]: the log last written by PUT, and by which write
  nextId,            \* id the store gives to the next session
  \* the console (React state of AgentConsole)
  workspaceRoot,     \* string; <<>> is null
  sessions,          \* sequence of [id, logs]
  currentSessionId,  \* 0 is null
  liveSessionId,     \* 0 is null
  status,            \* last stored status: [is_running, logs]
  timers,            \* pending setTimeout callbacks of saveSessionLogs
  saveLogsTimeoutRef,\* handle held in saveLogsTimeoutRef.current; 0 is null
  pollSessions,      \* `sessions` as captured by the poll effect's closure (ids)
  pollTimer,         \* ticks until the interval calls pollStatus again
  polls,             \* pollStatus invocations in progress
  puts,              \* debounced PUT requests awaiting their response
  loadPhase,         \* loadSessions(): "pending" | "done"
  \* history
  flushCount,        \* run-end flush writes issued since the run started
  defaultCreates,    \* store sizes at which ensureDefaultSession created a session
  \* the console: the user's actions and their outcome
  mounted,           \* the component is mounted
  stopRequested,     \* the stopRequested state
  stopTimeout,       \* the stopTimeout state: a watchdog handle; 0 is null
  watchdogs,         \* pending setTimeout callbacks of handleStop
  stops,             \* handleStop invocations awaiting the answer of /api/stop
  alerts,            \* the alert() dialogs shown so far
  failedActions,     \* history: the user actions that failed so far
  pendingAtUnmount,  \* history: debounce timers pending since the unmount
  lateTick,          \* history: a second passed while a request was outstanding
  \* the chat view (ChatInterface)
  shownLogs,         \* the logs prop: the snapshot shown
  messages,          \* the messages state: the classified forest
  enableHitl,        \* config.enable_hitl
  collapsedStore,    \* localStorage autods_collapsed_step_<n>: "none" | "0" | "1"
  \* the progress bar (ProgressBar)
  steps,             \* the steps state: the stages and their status
  enableDeepResearch \* config.enable_deep_research

consoleVars == <<srvRunning, srvRun, srvLogLen, srvActiveWs, store, durable, nextId,
                 workspaceRoot, sessions, currentSessionId, liveSessionId, status,
                 timers, saveLogsTimeoutRef, pollSessions, pollTimer, polls, puts,
                 loadPhase, flushCount, defaultCreates>>
userVars == <<mounted, stopRequested, stopTimeout, watchdogs, stops, alerts, failedActions,
              pendingAtUnmount>>
chatVars == <<shownLogs, messages, enableHitl, collapsedStore>>
progressVars == <<steps, enableDeepResearch>>
viewVars == <<chatVars, progressVars>>
vars == <<consoleVars, userVars, lateTick, chatVars, progressVars>>

srvVars == <<srvRunning, srvRun, srvLogLen, srvActiveWs>>
storeVars == <<store, durable, nextId>>

----------------------------------------------------------------------------
\* Strings are sequences of characters.

Null == <<>>

\* s.replace(/\\/g, '/')
NormalizeSep(s) == [i \in DOMAIN s |-> IF s[i] = "\\" THEN "/" ELSE s[i]]

\* a.endsWith(b)
EndsWith(a, b) ==
  /\ Len(b) <= Len(a)
  /\ SubSeq(a, Len(a) - Len(b) + 1, Len(a)) = b

Digits == <<"0", "1", "2", "3", "4", "5", "6", "7", "8", "9">>

\* The group and workspace the store gives a session.
SessionGroup(id) == IF id % 2 = 0 THEN <<"g">> ELSE Null
SessionWorkspace(id) == <<"w", Digits[(id % 10) + 1]>>

\* workspace_root of /api/workspace: the server's base root.
BaseRoot == <<"c", "\\", "r">>

\* `${baseRoot}/${groupPrefix}${s.workspace}`.replace(/\\/g, '/')
SessionWs(baseRoot, id) ==
  LET groupPrefix == IF SessionGroup(id) # Null THEN SessionGroup(id) \o <<"/">> ELSE Null
  IN NormalizeSep(baseRoot \o <<"/">> \o groupPrefix \o SessionWorkspace(id))

\* activeWs === sessionWs || activeWs.endsWith(sessionWs)
WsMatchesExact(activeWs, sessionWs) == activeWs = sessionWs
WsMatches(activeWs, sessionWs) == activeWs = sessionWs \/ EndsWith(activeWs, sessionWs)

\* The predicate of sessions.find(...) in pollStatus.
SessionMatches(id, activeWs, root) ==
  WsMatches(NormalizeSep(activeWs), SessionWs(NormalizeSep(root), id))

\* sessions.find(pred): the id of the first match, 0 when there is none.
FindSession(ids, activeWs, root) ==
  LET hits == {i \in DOMAIN ids : SessionMatches(ids[i], activeWs, root)}
  IN IF hits = {} THEN 0 ELSE ids[CHOOSE i \in hits : \A j \in hits : i <= j]

----------------------------------------------------------------------------
\* Log snapshots.  A snapshot of an append-only log is the run and its length.

EmptyLogs == <<0, 0>>
Snap(run, len) == IF len = 0 THEN EmptyLogs ELSE <<run, len>>
\* a is a strict prefix of b
Older(a, b) == a # b /\ (a = EmptyLogs \/ (a[1] = b[1] /\ a[2] < b[2]))

Ids(ss) == [i \in DOMAIN ss |-> ss[i].id]
InSeq(x, s) == \E i \in DOMAIN s : s[i] = x
RemoveAt(s, i) == [j \in 1..(Len(s) - 1) |-> IF j < i THEN s[j] ELSE s[j + 1]]
\* prev.filter(s => s.id !== id)
FilterOut(ss, id) == SelectSeq(ss, LAMBDA s : s.id # id)
\* prev.map(s => s.id === id ? { ...s, logs } : s)
WithLogs(ss, id, logs) ==
  [i \in DOMAIN ss |-> IF ss[i].id = id THEN [ss[i] EXCEPT !.logs = logs] ELSE ss[i]]

----------------------------------------------------------------------------
\* Timers of saveSessionLogs: timers[h] is the callback scheduled under handle h.

IdleTimer == [active |-> FALSE, sid |-> 0, logs |-> EmptyLogs, remaining |-> 0]

\* if (saveLogsTimeoutRef.current) clearTimeout(saveLogsTimeoutRef.current)
ClearTimeoutNoop(ts, h) == ts
ClearTimeout(ts, h) == IF h = 0 THEN ts ELSE [ts EXCEPT ![h] = IdleTimer]

HasFreeHandle(ts) == \E h \in DOMAIN ts : ~ts[h].active
FreeHandle(ts) == CHOOSE h \in DOMAIN ts : ~ts[h].active /\ \A k \in 1..(h - 1) : ts[k].active

\* saveSessionLogs(id, logsToSave): the cached log is replaced, the pending
\* callback is cancelled and a new one is scheduled DebounceTicks ahead.
SaveSessionLogs(ss, ts, ref, id, logs) ==
  LET cleared == ClearTimeout(ts, ref)
      h == FreeHandle(cleared)
  IN [sessions |-> WithLogs(ss, id, logs),
      timers |-> [cleared EXCEPT ![h] = [active |-> TRUE, sid |-> id, logs |-> logs,
                                          remaining |-> DebounceTicks]],
      ref |-> h]

\* A call of saveSessionLogs can take a handle.
CanSave(ts, ref) == HasFreeHandle(ClearTimeout(ts, ref))

\* Timers of handleStop: watchdogs[w] is the callback scheduled under handle w,
\* with what its closure captured of the render handleStop belongs to
\* (stopRequested and status.is_running).  The 120 seconds are not counted: a
\* scheduled callback runs at some later moment.
IdleWatchdog == [active |-> FALSE, stopRequested |-> FALSE, is_running |-> FALSE]
ClearWatchdog(ws, w) == IF w = 0 THEN ws ELSE [ws EXCEPT ![w] = IdleWatchdog]

\* setTimeout returns a handle no one holds: not a pending one, and not one
\* the stopTimeout state or a pollStatus closure still refers to.
UnusedHandle(ws, stopT, ps, w) ==
  /\ ~ws[w].active
  /\ w # stopT
  /\ \A p \in DOMAIN ps : ps[p].stopTimeout # w
HasFreeWatchdog(ws, stopT, ps) == \E w \in DOMAIN ws : UnusedHandle(ws, stopT, ps, w)
FreeWatchdog(ws, stopT, ps) ==
  CHOOSE w \in DOMAIN ws : /\ UnusedHandle(ws, stopT, ps, w)
                           /\ \A k \in 1..(w - 1) : ~UnusedHandle(ws, stopT, ps, k)

\* A state setter called by a continuation: React drops the update of an
\* unmounted component.
SetState(isMounted, new, old) == IF isMounted THEN new ELSE old

----------------------------------------------------------------------------
\* pollStatus invocations, in the order of their calls.  A record keeps what the closure captured (live,
\* root, sess, stopRequested, stopTimeout) and, once the server replied, the
\* response (running, logs, ws).

HasFreeSlot(ps) == Len(ps) < MaxPolls

\* pollStatus() is called: the status request is sent.
StartPoll(ps, live, root, sess, stop, stopT) ==
  Append(ps, [phase |-> "sent", live |-> live, root |-> root, sess |-> sess,
              stopRequested |-> stop, stopTimeout |-> stopT,
              running |-> FALSE, logs |-> EmptyLogs, ws |-> Null])

\* The reconnection block of pollStatus: the session to adopt, 0 for none.
FoundSessionOrFirst(c, current) ==
  IF c.running /\ c.live = 0 /\ c.ws # Null /\ c.root # Null /\ Len(c.sess) > 0
  THEN (IF FindSession(c.sess, c.ws, c.root) # 0 THEN FindSession(c.sess, c.ws, c.root)
        ELSE c.sess[1])
  ELSE 0
FoundSession(c, current) ==
  IF c.running /\ c.live = 0 /\ c.ws # Null /\ c.root # Null /\ Len(c.sess) > 0
  THEN FindSession(c.sess, c.ws, c.root) ELSE 0

\* The run-end block of pollStatus is entered.
RunEnded(c) == ~c.running /\ c.live # 0

\* ensureDefaultSession, run by its effect for the state (root, ss, cur);
\* ok is whether the POST of createSession succeeds.
EnsureDefaultSession(root, ss, cur, id, ok) ==
  IF root # Null /\ Len(ss) = 0
  THEN IF ok THEN [sessions |-> <<[id |-> id, logs |-> EmptyLogs]>>, cur |-> id, made |-> TRUE]
             ELSE [sessions |-> ss, cur |-> cur, made |-> FALSE]
  ELSE IF Len(ss) > 0 /\ cur = 0
       THEN [sessions |-> ss, cur |-> ss[1].id, made |-> FALSE]
       ELSE [sessions |-> ss, cur |-> cur, made |-> FALSE]

NoEffect(ss, cur) == [sessions |-> ss, cur |-> cur, made |-> FALSE]

\* durable[id]: the stored log, the kind of write that stored it, and the
\* snapshot the last run-end flush stored (NoSnap before any).
NoSnap == <<0 - 1, 0>>
InitialDurable == [logs |-> EmptyLogs, kind |-> "none", flushed |-> NoSnap]
Cap2(n) == IF n >= 2 THEN 2 ELSE n + 1

----------------------------------------------------------------------------
\* The backend.

\* The path handleSendMessage sends as workspace_root for session id, and the
\* forms in which the backend reports it as active_workspace.
RunPath(id) ==
  LET groupPrefix == IF SessionGroup(id) # Null THEN SessionGroup(id) \o <<"/">> ELSE Null
  IN BaseRoot \o <<"/">> \o groupPrefix \o SessionWorkspace(id)
Backslashed(s) == [i \in DOMAIN s |-> IF s[i] = "/" THEN "\\" ELSE s[i]]
ActiveWsForms(path) == {Backslashed(path), <<"d", "/">> \o NormalizeSep(path)}

StoreSessions == [i \in DOMAIN store |-> [id |-> store[i], logs |-> durable[store[i]].logs]]

----------------------------------------------------------------------------
\* The log classifier (ChatInterface.tsx, the effect on [logs]).
\*
\* A log message is modelled by what the classifier reads of it: the marker
\* texts it contains, and the number the pattern /Executing Step (\d+):(.+)/
\* finds in it (0 when the pattern does not match).  A message is also its
\* own content.  Timestamps are copied through and left out.

MaxEntries == 4
MaxStep == 2

Undef == "undef"
Message(marks, step) == [marks |-> marks, step |-> step]
LogEntry(marks, step, type) == [message |-> Message(marks, step), type |-> type]
Includes(msg, kw) == kw \in msg.marks
StepMatch(msg) == msg.step

\* The log entries the model draws snapshots from.
ExecutingStep(n) == LogEntry({"Executing Step"}, n, "execution")
Vocabulary ==
  {LogEntry({"Starting Agent System"}, 0, "log"),
   LogEntry({"Starting Deep Research"}, 0, "research"),
   LogEntry({"Generating Plan"}, 0, "log"),
   LogEntry({"PLAN REVIEW", "Plan Generated"}, 0, "log"),
   LogEntry({"PLAN REVIEW", "Plan Generated", "Final Report"}, 0, "log"),
   LogEntry({"Plan Generated"}, 0, "log"),
   LogEntry({"Selected Agent:"}, 0, "log"),
   LogEntry({"Step completed successfully"}, 0, "success"),
   LogEntry({}, 0, "log")}
  \cup {ExecutingStep(n) : n \in 1..MaxStep}

\* ChatMessage objects.  collapsed is "true", "false" or Undef; stepId 0 and
\* action "none" stand for an absent metadata field.
ChatMessage(id, type, content, stat) ==
  [id |-> id, type |-> type, content |-> content, status |-> stat,
   collapsed |-> Undef, children |-> <<>>, stepId |-> 0, action |-> "none"]
StepMessage(id, content, action, stepId) ==
  [id |-> id, type |-> "step", content |-> content, status |-> "info",
   collapsed |-> "false", children |-> <<>>, stepId |-> stepId, action |-> action]
Substep(id, content, stat) ==
  [id |-> id, type |-> "substep", content |-> content, status |-> stat]
\* Contents the classifier writes itself: a fixed title, or "Step n:<text>".
Title(text, n) == [title |-> text, step |-> n]

\* The pass's locals: structuredMessages, currentStep (the position of the
\* open step in structuredMessages, 0 for null) and messageId.
StartForestKept(prev) == prev
StartForest(prev) == <<>>
StartOfPass(prev) == [structuredMessages |-> StartForest(prev), currentStep |-> 0, messageId |-> 0]

Push(st, type, content, stat) ==
  [st EXCEPT !.structuredMessages = Append(@, ChatMessage(st.messageId, type, content, stat)),
             !.messageId = @ + 1]
OpenStep(st, content, action, stepId) ==
  [structuredMessages |-> Append(st.structuredMessages,
                                 StepMessage(st.messageId, content, action, stepId)),
   currentStep |-> Len(st.structuredMessages) + 1,
   messageId |-> st.messageId + 1]
PushChild(st, k, content, stat) ==
  [st EXCEPT !.structuredMessages[k].children = Append(@, Substep(st.messageId, content, stat)),
             !.messageId = @ + 1]
SetStatus(st, k, stat) == [st EXCEPT !.structuredMessages[k].status = stat]
SetCollapsed(st, k, c) == [st EXCEPT !.structuredMessages[k].collapsed = c]
CloseStep(st) == [st EXCEPT !.currentStep = 0]
CurrentIs(st, action) ==
  st.currentStep # 0 /\ st.structuredMessages[st.currentStep].action = action
NotHitl(hitl) == IF hitl THEN "false" ELSE "true"

\* structuredMessages.find(m => m.metadata?.action === 'planning'): the first.
FindPlanning(ms) ==
  IF \E k \in DOMAIN ms : ms[k].action = "planning"
  THEN CHOOSE k \in DOMAIN ms : ms[k].action = "planning"
                                /\ \A j \in 1..(k - 1) : ms[j].action # "planning"
  ELSE 0

\* The rules from the error rule down to the generic fallback.
LastRules(st, log) ==
  LET msg == log.message
      cur == st.currentStep
  IN IF log.type = "error"
     THEN IF cur # 0
          THEN PushChild(SetStatus(st, cur, "error"), cur, msg, "error")
          ELSE Push(st, "agent", msg, "error")
     ELSE IF log.type = "input_request"
     THEN Push(st, "agent", msg, "warning")
     ELSE IF Includes(msg, "Mission Complete")
     THEN Push(st, "system", Title("Mission Complete!", 0), "success")
     ELSE IF Includes(msg, "Final report saved to")
     THEN Push(st, "system", msg, "success")
     ELSE IF cur = 0
     THEN Push(st, "agent", msg,
               IF log.type = "success" THEN "success"
               ELSE IF log.type = "warning" THEN "warning" ELSE Undef)
     ELSE PushChild(st, cur, msg, Undef)

\* The step-completed rule.
StepCompletedLeftOpen(st) ==
  IF CurrentIs(st, "execution") THEN SetStatus(st, st.currentStep, "success") ELSE st
StepCompleted(st) ==
  IF CurrentIs(st, "execution")
  THEN SetCollapsed(SetStatus(st, st.currentStep, "success"), st.currentStep, "true")
  ELSE st

\* The agent-selection rule.
AgentSelectedAnyStep(st, log) ==
  IF st.currentStep # 0 THEN PushChild(st, st.currentStep, log.message, Undef) ELSE st
AgentSelected(st, log) ==
  IF CurrentIs(st, "execution") THEN PushChild(st, st.currentStep, log.message, Undef) ELSE st

\* The execution rules.
ExecutionRules(st, log) ==
  LET msg == log.message
      cur == st.currentStep
  IN IF Includes(msg, "Executing Step")
     THEN IF StepMatch(msg) # 0
          THEN OpenStep(st, Title("Step", StepMatch(msg)), "execution", StepMatch(msg))
          ELSE st
     ELSE IF Includes(msg, "Selected Agent:") \/ Includes(msg, "Agent Selection")
     THEN AgentSelected(st, log)
     ELSE IF Includes(msg, "Step completed successfully") \/ Includes(msg, "CHECK MARK")
     THEN StepCompleted(st)
     ELSE LastRules(st, log)

\* The plan-review rule, and the plan-generated rule.
PlanReview(st, log, hitl) ==
  LET planningStep == FindPlanning(st.structuredMessages)
  IN CloseStep(IF planningStep # 0
               THEN SetCollapsed(SetStatus(PushChild(st, planningStep, log.message, Undef),
                                           planningStep, "success"),
                                 planningStep, NotHitl(hitl))
               ELSE Push(st, "agent", log.message, "info"))
PlanGenerated(st, hitl) ==
  CloseStep(IF CurrentIs(st, "planning")
            THEN SetCollapsed(SetStatus(st, st.currentStep, "success"),
                              st.currentStep, NotHitl(hitl))
            ELSE st)

PlanRulesGeneratedFirst(st, log, hitl) ==
  IF Includes(log.message, "Plan Generated") THEN PlanGenerated(st, hitl)
  ELSE IF Includes(log.message, "PLAN REVIEW") THEN PlanReview(st, log, hitl)
  ELSE ExecutionRules(st, log)
PlanRules(st, log, hitl) ==
  IF Includes(log.message, "PLAN REVIEW") THEN PlanReview(st, log, hitl)
  ELSE IF Includes(log.message, "Plan Generated") THEN PlanGenerated(st, hitl)
  ELSE ExecutionRules(st, log)

\* One iteration of logs.forEach: the rules in order, the first match wins.
ClassifyLog(st, log, hitl) ==
  LET msg == log.message
      cur == st.currentStep
  IN IF Includes(msg, "Starting Agent System") \/ Includes(msg, "Goal:")
     THEN Push(st, "system", msg, "info")
     ELSE IF Includes(msg, "Starting Deep Research")
     THEN OpenStep(st, Title("Deep Research Phase", 0), "research", 0)
     ELSE IF Includes(msg, "Executing Deep Research") \/ Includes(msg, "Research findings saved")
     THEN IF CurrentIs(st, "research") THEN PushChild(st, cur, msg, Undef) ELSE st
     ELSE IF Includes(msg, "Deep Research Complete")
     THEN CloseStep(IF CurrentIs(st, "research")
                    THEN SetCollapsed(SetStatus(st, cur, "success"), cur, "true")
                    ELSE st)
     ELSE IF Includes(msg, "Final Report")
     THEN Push(st, "agent", msg, "success")
     ELSE IF Includes(msg, "Generating Plan") /\ ~Includes(msg, "PLAN REVIEW")
     THEN OpenStep(st, Title("Generating Execution Plan", 0), "planning", 0)
     ELSE PlanRules(st, log, hitl)

RECURSIVE ForEach(_, _, _, _)
ForEach(st, ls, i, hitl) ==
  IF i > Len(ls) THEN st ELSE ForEach(ClassifyLog(st, ls[i], hitl), ls, i + 1, hitl)
PassEnd(ls, prev, hitl) == ForEach(StartOfPass(prev), ls, 1, hitl)
StructuredMessages(ls, prev, hitl) == PassEnd(ls, prev, hitl).structuredMessages

\* The collapse resolution of the setMessages updater.
\* prevMap.get(id): the Map keeps the last entry of a key.
PrevMapGet(prev, id) ==
  IF \E k \in DOMAIN prev : prev[k].id = id
  THEN prev[CHOOSE k \in DOMAIN prev :
              prev[k].id = id /\ \A j \in (k + 1)..Len(prev) : prev[j].id # id].collapsed
  ELSE Undef
Persisted(m, storage) == IF m.stepId # 0 THEN storage[m.stepId] ELSE "none"
ResolveCollapsedPriorFirst(m, prev, storage) ==
  LET persisted == Persisted(m, storage)
      fromPrev == PrevMapGet(prev, m.id)
      defaultCollapsed == IF fromPrev # Undef THEN fromPrev
                          ELSE IF m.collapsed # Undef THEN m.collapsed ELSE "false"
  IN IF persisted # "none"
     THEN (IF persisted = "1" THEN "true" ELSE "false")
     ELSE defaultCollapsed
ResolveCollapsed(m, prev, storage) ==
  LET persisted == Persisted(m, storage)
      fromPrev == PrevMapGet(prev, m.id)
      defaultCollapsed == IF m.collapsed # Undef THEN m.collapsed
                          ELSE IF fromPrev # Undef THEN fromPrev ELSE "false"
  IN IF persisted # "none"
     THEN (IF persisted = "1" THEN "true" ELSE "false")
     ELSE defaultCollapsed

\* The whole effect: the forest setMessages stores.
Classify(ls, prev, hitl, storage) ==
  LET built == StructuredMessages(ls, prev, hitl)
  IN [k \in DOMAIN built |->
        [built[k] EXCEPT !.collapsed = ResolveCollapsed(built[k], prev, storage)]]

NoPreference == [n \in 1..MaxStep |-> "none"]
Negate(c) == IF c = "true" THEN "false" ELSE "true"

----------------------------------------------------------------------------
\* The stage deriver (ProgressBar.tsx, the effect on [logs,
\* config.enable_deep_research]).  Indices count from 1; 0 is "not found".

Max2(a, b) == IF a >= b THEN a ELSE b
\* lastIndexOfMsg(kw)
LastIndexOfMsg(ls, kw) ==
  LET hits == {i \in DOMAIN ls : Includes(ls[i].message, kw)}
  IN IF hits = {} THEN 0 ELSE CHOOSE i \in hits : \A j \in hits : j <= i
\* logs.some(l => l.type === 'error' && l.message.includes('Executing Step'))
ExecError(ls) ==
  \E i \in DOMAIN ls : ls[i].type = "error" /\ Includes(ls[i].message, "Executing Step")

Pending(id) == [id |-> id, status |-> "pending"]
\* const next: the stages, all pending, research only when enabled.
NextSteps(research) ==
  <<Pending("init")>> \o (IF research THEN <<Pending("research")>> ELSE <<>>)
    \o <<Pending("planning"), Pending("execution"), Pending("complete")>>

InitStatus(ls) ==
  IF Max2(LastIndexOfMsg(ls, "Starting Agent System"), LastIndexOfMsg(ls, "Goal:")) > 0
  THEN "completed" ELSE "pending"
ResearchStatusFailIgnored(ls) ==
  LET idxResearchStart == LastIndexOfMsg(ls, "Starting Deep Research")
      idxResearchDone == Max2(LastIndexOfMsg(ls, "Deep Research Complete"),
                              LastIndexOfMsg(ls, "Research findings saved"))
  IN IF idxResearchStart > 0
     THEN (IF idxResearchDone >= idxResearchStart THEN "completed" ELSE "active")
     ELSE IF LastIndexOfMsg(ls, "Deep Research failed") > 0 THEN "error" ELSE "pending"
ResearchStatus(ls) ==
  LET idxResearchStart == LastIndexOfMsg(ls, "Starting Deep Research")
      idxResearchDone == Max2(LastIndexOfMsg(ls, "Deep Research Complete"),
                              LastIndexOfMsg(ls, "Research findings saved"))
      idxResearchFail == LastIndexOfMsg(ls, "Deep Research failed")
  IN IF idxResearchStart > 0 /\ idxResearchFail = 0
     THEN (IF idxResearchDone >= idxResearchStart THEN "completed" ELSE "active")
     ELSE IF idxResearchFail > 0 THEN "error" ELSE "pending"
PlanningStatusAnyDone(ls) ==
  IF LastIndexOfMsg(ls, "Generating Plan") > 0
  THEN (IF LastIndexOfMsg(ls, "Plan Generated") > 0 THEN "completed" ELSE "active")
  ELSE "pending"
PlanningStatus(ls) ==
  LET idxPlanStart == LastIndexOfMsg(ls, "Generating Plan")
      idxPlanDone == LastIndexOfMsg(ls, "Plan Generated")
  IN IF idxPlanStart > 0
     THEN (IF idxPlanDone >= idxPlanStart THEN "completed" ELSE "active")
     ELSE "pending"
ExecutionStatusForced(ls) ==
  IF LastIndexOfMsg(ls, "Mission Complete") > 0 THEN "completed"
  ELSE IF LastIndexOfMsg(ls, "Executing Step") > 0
  THEN (IF ExecError(ls) THEN "error" ELSE "active")
  ELSE "pending"
ExecutionStatus(ls) ==
  LET started == IF LastIndexOfMsg(ls, "Executing Step") > 0
                 THEN (IF ExecError(ls) THEN "error" ELSE "active")
                 ELSE "pending"
  IN IF LastIndexOfMsg(ls, "Mission Complete") > 0 /\ started = "pending"
     THEN "completed" ELSE started
CompleteStatusAfterExecution(ls) ==
  IF LastIndexOfMsg(ls, "Mission Complete") > 0 /\ LastIndexOfMsg(ls, "Executing Step") > 0
  THEN "completed" ELSE "pending"
CompleteStatus(ls) ==
  IF LastIndexOfMsg(ls, "Mission Complete") > 0 THEN "completed" ELSE "pending"

\* The whole effect: the list setSteps stores.
DeriveStages(ls, research) ==
  LET next == NextSteps(research)
  IN [k \in DOMAIN next |->
        [next[k] EXCEPT !.status =
           CASE next[k].id = "init" -> InitStatus(ls)
             [] next[k].id = "research" -> ResearchStatus(ls)
             [] next[k].id = "planning" -> PlanningStatus(ls)
             [] next[k].id = "execution" -> ExecutionStatus(ls)
             [] OTHER -> CompleteStatus(ls)]]

\* findStep(id).status; "absent" when the list has no such stage.
StatusOf(ss, id) ==
  IF \E k \in DOMAIN ss : ss[k].id = id
  THEN ss[CHOOSE k \in DOMAIN ss : ss[k].id = id].status
  ELSE "absent"

\* The chat view and the progress bar at mount: nothing shown, HITL and deep
\* research on (the default config).
InitView ==
  /\ shownLogs = <<>>
  /\ messages = <<>>
  /\ enableHitl = TRUE
  /\ collapsedStore = NoPreference
  /\ enableDeepResearch = TRUE
  /\ steps = DeriveStages(<<>>, TRUE)

\* The console at mount: no stop asked, no dialog shown.
InitUser ==
  /\ mounted = TRUE
  /\ stopRequested = FALSE
  /\ stopTimeout = 0
  /\ watchdogs = [w \in 1..MaxWatchdogs |-> IdleWatchdog]
  /\ stops = <<>>
  /\ alerts = <<>>
  /\ failedActions = <<>>
  /\ pendingAtUnmount = {}
  /\ lateTick = FALSE

InitConsole ==
  /\ store \in {[i \in 1..n |-> i] : n \in 0..MaxSessions}
  /\ nextId = Len(store) + 1
  /\ durable = [id \in 1..MaxSessions |-> InitialDurable]
  /\ srvRunning \in BOOLEAN
  /\ srvRun = IF srvRunning THEN 1 ELSE 0
  /\ srvLogLen = 0
  /\ srvActiveWs \in IF srvRunning
                     THEN {BaseRoot} \cup UNION {ActiveWsForms(RunPath(store[i])) : i \in DOMAIN store}
                     ELSE {Null}
  /\ workspaceRoot = Null
  /\ sessions = <<>>
  /\ currentSessionId = 0
  /\ liveSessionId = 0
  /\ status = [is_running |-> FALSE, logs |-> EmptyLogs]
  /\ timers = [h \in 1..MaxTimers |-> IdleTimer]
  /\ saveLogsTimeoutRef = 0
  /\ pollSessions = <<>>
  /\ pollTimer = PollIntervalTicks
  /\ polls = StartPoll(<<>>, 0, Null, <<>>, FALSE, 0)
  /\ puts = <<>>
  /\ loadPhase = "pending"
  /\ flushCount = 0
  /\ defaultCreates = <<>>
  /\ InitUser

Init == InitConsole /\ InitView

\* The agent appends a log entry.
AgentLog ==
  /\ srvRunning
  /\ srvLogLen < MaxLogLen
  /\ srvLogLen' = srvLogLen + 1
  /\ UNCHANGED <<viewVars, lateTick, userVars, srvRunning, srvRun, srvActiveWs, storeVars, workspaceRoot, sessions,
                 currentSessionId, liveSessionId, status, timers, saveLogsTimeoutRef,
                 pollSessions, pollTimer, polls, puts, loadPhase, flushCount, defaultCreates>>

\* The run ends.
AgentFinish ==
  /\ srvRunning
  /\ srvRunning' = FALSE
  /\ UNCHANGED <<viewVars, lateTick, userVars, srvRun, srvLogLen, srvActiveWs, storeVars, workspaceRoot, sessions,
                 currentSessionId, liveSessionId, status, timers, saveLogsTimeoutRef,
                 pollSessions, pollTimer, polls, puts, loadPhase, flushCount, defaultCreates>>

\* GET /api/status is answered with the state of that moment.
ServerReply(p) ==
  /\ p \in DOMAIN polls
  /\ polls[p].phase = "sent"
  /\ polls' = [polls EXCEPT ![p].phase = "replied", ![p].running = srvRunning,
                            ![p].logs = Snap(srvRun, srvLogLen), ![p].ws = srvActiveWs]
  /\ UNCHANGED <<viewVars, lateTick, userVars, srvVars, storeVars, workspaceRoot, sessions, currentSessionId,
                 liveSessionId, status, timers, saveLogsTimeoutRef, pollSessions,
                 pollTimer, puts, loadPhase, flushCount, defaultCreates>>

----------------------------------------------------------------------------
\* The console.

\* One second passes; no timer that is due is skipped.
Tick ==
  /\ mounted => pollTimer > 0
  /\ \A h \in DOMAIN timers : timers[h].active => timers[h].remaining > 0
  /\ pollTimer' = IF mounted THEN pollTimer - 1 ELSE pollTimer
  /\ timers' = [h \in DOMAIN timers |->
                  IF timers[h].active THEN [timers[h] EXCEPT !.remaining = @ - 1] ELSE timers[h]]
  /\ UNCHANGED <<viewVars, lateTick, userVars, srvVars, storeVars, workspaceRoot, sessions, currentSessionId,
                 liveSessionId, status, saveLogsTimeoutRef, pollSessions, polls, puts,
                 loadPhase, flushCount, defaultCreates>>

\* One second passes while a status or flush request is outstanding; the
\* step is noted.
LateTick ==
  /\ polls # <<>>
  /\ mounted => pollTimer > 0
  /\ \A h \in DOMAIN timers : timers[h].active => timers[h].remaining > 0
  /\ pollTimer' = IF mounted THEN pollTimer - 1 ELSE pollTimer
  /\ timers' = [h \in DOMAIN timers |->
                  IF timers[h].active THEN [timers[h] EXCEPT !.remaining = @ - 1] ELSE timers[h]]
  /\ lateTick' = TRUE
  /\ UNCHANGED <<viewVars, userVars, srvVars, storeVars, workspaceRoot, sessions,
                 currentSessionId, liveSessionId, status, saveLogsTimeoutRef, pollSessions,
                 polls, puts, loadPhase, flushCount, defaultCreates>>

\* One second passes with no request outstanding.
PromptTick ==
  /\ polls = <<>>
  /\ Tick

\* The interval calls pollStatus, with the closure of the effect's last run.
PollFire ==
  /\ mounted
  /\ pollTimer = 0
  /\ HasFreeSlot(polls)
  /\ polls' = StartPoll(polls, liveSessionId, workspaceRoot, pollSessions, stopRequested, stopTimeout)
  /\ pollTimer' = PollIntervalTicks
  /\ UNCHANGED <<viewVars, lateTick, userVars, srvVars, storeVars, workspaceRoot, sessions, currentSessionId,
                 liveSessionId, status, timers, saveLogsTimeoutRef, pollSessions, puts,
                 loadPhase, flushCount, defaultCreates>>

\* The status request fails: pollStatus logs the error and returns.
PollFailResetsStatus(p) ==
  /\ p \in DOMAIN polls
  /\ polls[p].phase = "sent"
  /\ polls' = RemoveAt(polls, p)
  /\ status' = [is_running |-> FALSE, logs |-> EmptyLogs]
  /\ UNCHANGED <<viewVars, lateTick, userVars, srvVars, storeVars, workspaceRoot, sessions, currentSessionId,
                 liveSessionId, timers, saveLogsTimeoutRef, pollSessions,
                 pollTimer, puts, loadPhase, flushCount, defaultCreates>>
PollFail(p) ==
  /\ p \in DOMAIN polls
  /\ polls[p].phase = "sent"
  /\ polls' = RemoveAt(polls, p)
  /\ UNCHANGED <<viewVars, lateTick, userVars, srvVars, storeVars, workspaceRoot, sessions, currentSessionId,
                 liveSessionId, status, timers, saveLogsTimeoutRef, pollSessions,
                 pollTimer, puts, loadPhase, flushCount, defaultCreates>>

\* The status response arrives: pollStatus runs up to its flush request.
PollReceive(p) ==
  LET c == polls[p]
      found == FoundSession(c, sessions)
      adopt == found # 0
      ss1 == IF adopt THEN WithLogs(sessions, found, c.logs) ELSE sessions
      live1 == IF adopt THEN found ELSE liveSessionId
      saved == IF c.live # 0
               THEN SaveSessionLogs(ss1, timers, saveLogsTimeoutRef, c.live, c.logs)
               ELSE [sessions |-> ss1, timers |-> timers, ref |-> saveLogsTimeoutRef]
      stopReset == ~c.running /\ c.stopRequested
      stop1 == IF stopReset THEN FALSE ELSE stopRequested
      stopT1 == IF stopReset /\ c.stopTimeout # 0 THEN 0 ELSE stopTimeout
      polls1 == IF RunEnded(c) THEN [polls EXCEPT ![p].phase = "flush"]
                               ELSE RemoveAt(polls, p)
      rerun == mounted /\ (live1 # liveSessionId \/ stop1 # stopRequested \/ stopT1 # stopTimeout)
  IN /\ p \in DOMAIN polls
     /\ c.phase = "replied"
     /\ c.live # 0 => CanSave(timers, saveLogsTimeoutRef)
     /\ rerun => HasFreeSlot(polls1)
     /\ status' = SetState(mounted, [is_running |-> c.running, logs |-> c.logs], status)
     /\ sessions' = SetState(mounted, saved.sessions, sessions)
     /\ currentSessionId' = SetState(mounted, IF adopt THEN found ELSE currentSessionId,
                                     currentSessionId)
     /\ liveSessionId' = SetState(mounted, live1, liveSessionId)
     /\ stopRequested' = SetState(mounted, stop1, stopRequested)
     /\ stopTimeout' = SetState(mounted, stopT1, stopTimeout)
     /\ watchdogs' = IF stopReset THEN ClearWatchdog(watchdogs, c.stopTimeout) ELSE watchdogs
     /\ saveLogsTimeoutRef' = saved.ref
     /\ timers' = IF RunEnded(c) THEN ClearTimeout(saved.timers, saved.ref) ELSE saved.timers
     /\ pendingAtUnmount' = IF c.live # 0 THEN pendingAtUnmount \ {saveLogsTimeoutRef}
                                          ELSE pendingAtUnmount
     /\ flushCount' = IF RunEnded(c) THEN Cap2(flushCount) ELSE flushCount
     /\ IF rerun
        THEN /\ polls' = StartPoll(polls1, live1, workspaceRoot, Ids(saved.sessions),
                                   stop1, stopT1)
             /\ pollSessions' = Ids(saved.sessions)
             /\ pollTimer' = PollIntervalTicks
        ELSE /\ polls' = polls1
             /\ UNCHANGED <<pollSessions, pollTimer>>
     /\ UNCHANGED <<viewVars, lateTick, srvVars, storeVars, workspaceRoot, puts, loadPhase, defaultCreates,
                    mounted, stops, alerts, failedActions>>

\* The response of the flush PUT arrives (ok: the store took the write):
\* setLiveSessionId(null).
FlushDone(p, ok) ==
  LET c == polls[p]
      polls1 == RemoveAt(polls, p)
  IN /\ p \in DOMAIN polls
     /\ c.phase = "flush"
     /\ durable' = IF ok /\ InSeq(c.live, store)
                   THEN [durable EXCEPT ![c.live] = [logs |-> c.logs, kind |-> "flush",
                                                      flushed |-> c.logs]]
                   ELSE durable
     /\ liveSessionId' = SetState(mounted, 0, liveSessionId)
     /\ IF mounted /\ liveSessionId # 0
        THEN /\ polls' = StartPoll(polls1, 0, workspaceRoot, Ids(sessions),
                                   stopRequested, stopTimeout)
             /\ pollSessions' = Ids(sessions)
             /\ pollTimer' = PollIntervalTicks
        ELSE /\ polls' = polls1
             /\ UNCHANGED <<pollSessions, pollTimer>>
     /\ UNCHANGED <<viewVars, lateTick, userVars, srvVars, store, nextId, workspaceRoot, sessions, currentSessionId,
                    status, timers, saveLogsTimeoutRef, puts, loadPhase, flushCount,
                    defaultCreates>>

\* The debounce timer expires: its callback sends the PUT.
DebounceFire(h) ==
  /\ timers[h].active
  /\ timers[h].remaining = 0
  /\ Len(puts) < MaxPuts
  /\ puts' = Append(puts, [sid |-> timers[h].sid, logs |-> timers[h].logs])
  /\ timers' = [timers EXCEPT ![h] = IdleTimer]
  /\ pendingAtUnmount' = pendingAtUnmount \ {h}
  /\ UNCHANGED <<viewVars, lateTick, mounted, stopRequested, stopTimeout, watchdogs, stops, alerts,
                 failedActions, srvVars, storeVars, workspaceRoot, sessions, currentSessionId,
                 liveSessionId, status, saveLogsTimeoutRef, pollSessions, pollTimer,
                 polls, loadPhase, flushCount, defaultCreates>>

\* The response of a debounced PUT arrives (ok: the store took the write).
PutDone(i, ok) ==
  /\ i \in DOMAIN puts
  /\ durable' = IF ok /\ InSeq(puts[i].sid, store)
                THEN [durable EXCEPT ![puts[i].sid].logs = puts[i].logs,
                                     ![puts[i].sid].kind = "debounced"]
                ELSE durable
  /\ puts' = RemoveAt(puts, i)
  /\ UNCHANGED <<viewVars, lateTick, userVars, srvVars, store, nextId, workspaceRoot, sessions, currentSessionId,
                 liveSessionId, status, timers, saveLogsTimeoutRef, pollSessions,
                 pollTimer, polls, loadPhase, flushCount, defaultCreates>>

\* The commit of a state change that ran the ensureDefaultSession effect with
\* outcome e, the store being st before the effect's createSession.
CommitDefault(e, st) ==
  /\ sessions' = e.sessions
  /\ currentSessionId' = e.cur
  /\ store' = IF e.made THEN Append(st, nextId) ELSE st
  /\ nextId' = IF e.made THEN nextId + 1 ELSE nextId
  /\ defaultCreates' = IF e.made /\ Len(defaultCreates) < 2
                       THEN Append(defaultCreates, Len(st)) ELSE defaultCreates

\* loadWorkspaceInfo: the response sets workspaceRoot; the poll effect and the
\* ensureDefaultSession effect run again.
WorkspaceLoaded(ok) ==
  /\ mounted
  /\ workspaceRoot = Null
  /\ HasFreeSlot(polls)
  /\ workspaceRoot' = BaseRoot
  /\ polls' = StartPoll(polls, liveSessionId, BaseRoot, Ids(sessions), stopRequested, stopTimeout)
  /\ pollSessions' = Ids(sessions)
  /\ pollTimer' = PollIntervalTicks
  /\ CommitDefault(EnsureDefaultSession(BaseRoot, sessions, currentSessionId, nextId,
                                        ok /\ nextId <= MaxSessions), store)
  /\ UNCHANGED <<viewVars, lateTick, userVars, srvVars, durable, liveSessionId, status, timers, saveLogsTimeoutRef,
                 puts, loadPhase, flushCount>>

\* loadSessions: the list arrives (ok), or the request fails and the empty
\* local list is taken; the ensureDefaultSession effect runs if the length changed.
LoadSessionsDone(ok, okCreate) ==
  LET ss1 == IF ok THEN StoreSessions ELSE <<>>
  IN /\ mounted
     /\ loadPhase = "pending"
     /\ loadPhase' = "done"
     /\ CommitDefault(IF Len(ss1) # Len(sessions)
                      THEN EnsureDefaultSession(workspaceRoot, ss1, currentSessionId, nextId,
                                                okCreate /\ nextId <= MaxSessions)
                      ELSE NoEffect(ss1, currentSessionId), store)
     /\ UNCHANGED <<viewVars, lateTick, userVars, srvVars, durable, workspaceRoot, liveSessionId, status, timers,
                    saveLogsTimeoutRef, pollSessions, pollTimer, polls, puts, flushCount>>

\* createSession by the user: the new session is put first and selected.
CreateSession ==
  /\ mounted
  /\ nextId <= MaxSessions
  /\ store' = Append(store, nextId)
  /\ nextId' = nextId + 1
  /\ sessions' = <<[id |-> nextId, logs |-> EmptyLogs]>> \o sessions
  /\ currentSessionId' = nextId
  /\ UNCHANGED <<viewVars, lateTick, userVars, srvVars, durable, workspaceRoot, liveSessionId, status, timers,
                 saveLogsTimeoutRef, pollSessions, pollTimer, polls, puts, loadPhase,
                 flushCount, defaultCreates>>

\* deleteSession(id): the session leaves the store and the list; the
\* ensureDefaultSession effect runs for the shorter list.
DeleteSession(id, okCreate) ==
  LET ss1 == FilterOut(sessions, id)
      cur1 == IF currentSessionId = id THEN 0 ELSE currentSessionId
  IN /\ mounted
     /\ InSeq(id, Ids(sessions))
     /\ durable' = [durable EXCEPT ![id] = InitialDurable]
     /\ CommitDefault(EnsureDefaultSession(workspaceRoot, ss1, cur1, nextId,
                                           okCreate /\ nextId <= MaxSessions),
                      SelectSeq(store, LAMBDA x : x # id))
     /\ UNCHANGED <<viewVars, lateTick, userVars, srvVars, workspaceRoot, liveSessionId, status, timers,
                    saveLogsTimeoutRef, pollSessions, pollTimer, polls, puts, loadPhase,
                    flushCount>>

\* The user selects a session of the list.
SelectSession(id) ==
  /\ mounted
  /\ InSeq(id, Ids(sessions))
  /\ currentSessionId # id
  /\ currentSessionId' = id
  /\ UNCHANGED <<viewVars, lateTick, userVars, srvVars, storeVars, workspaceRoot, sessions, liveSessionId, status,
                 timers, saveLogsTimeoutRef, pollSessions, pollTimer, polls, puts,
                 loadPhase, flushCount, defaultCreates>>

\* handleSendMessage starts a run (the backend answers 'started'): the run
\* goes to the selected session's workspace, whose cached log is emptied, and
\* the session becomes the live one.
StartRun(ws) ==
  LET known == currentSessionId # 0 /\ InSeq(currentSessionId, Ids(sessions))
      saved == IF currentSessionId # 0
               THEN SaveSessionLogs(sessions, timers, saveLogsTimeoutRef, currentSessionId, EmptyLogs)
               ELSE [sessions |-> sessions, timers |-> timers, ref |-> saveLogsTimeoutRef]
      live1 == IF currentSessionId # 0 THEN currentSessionId ELSE liveSessionId
  IN /\ mounted
     /\ ~status.is_running
     /\ ~srvRunning
     /\ srvRun < MaxRuns
     /\ HasFreeSlot(polls)
     /\ currentSessionId # 0 => CanSave(timers, saveLogsTimeoutRef)
     /\ ws \in IF known THEN ActiveWsForms(RunPath(currentSessionId)) ELSE {BaseRoot}
     /\ srvRunning' = TRUE
     /\ srvRun' = srvRun + 1
     /\ srvLogLen' = 0
     /\ srvActiveWs' = ws
     /\ sessions' = saved.sessions
     /\ timers' = saved.timers
     /\ saveLogsTimeoutRef' = saved.ref
     /\ liveSessionId' = live1
     /\ flushCount' = 0
     /\ IF live1 # liveSessionId
        THEN /\ polls' = StartPoll(polls, live1, workspaceRoot, Ids(sessions), stopRequested, stopTimeout)
             /\ pollSessions' = Ids(sessions)
             /\ pollTimer' = PollIntervalTicks
        ELSE UNCHANGED <<polls, pollSessions, pollTimer>>
     /\ UNCHANGED <<viewVars, lateTick, userVars, storeVars, workspaceRoot, currentSessionId, status, puts, loadPhase,
                    defaultCreates>>

\* createSession by the user, the request failing or being refused: the error
\* is logged and thrown again; the button's handler does not catch it.
CreateSessionFail ==
  /\ mounted
  /\ Len(failedActions) < MaxFailures
  /\ failedActions' = Append(failedActions, "create")
  /\ UNCHANGED <<viewVars, lateTick, mounted, stopRequested, stopTimeout, watchdogs, stops, alerts,
                 pendingAtUnmount, srvVars, storeVars, workspaceRoot, sessions, currentSessionId,
                 liveSessionId, status, timers, saveLogsTimeoutRef, pollSessions, pollTimer,
                 polls, puts, loadPhase, flushCount, defaultCreates>>

\* deleteSession(id), the request failing or being refused: the error is logged.
DeleteSessionFail(id) ==
  /\ mounted
  /\ InSeq(id, Ids(sessions))
  /\ Len(failedActions) < MaxFailures
  /\ failedActions' = Append(failedActions, "delete")
  /\ UNCHANGED <<viewVars, lateTick, mounted, stopRequested, stopTimeout, watchdogs, stops, alerts,
                 pendingAtUnmount, srvVars, storeVars, workspaceRoot, sessions, currentSessionId,
                 liveSessionId, status, timers, saveLogsTimeoutRef, pollSessions, pollTimer,
                 polls, puts, loadPhase, flushCount, defaultCreates>>

\* handleStop up to its request (the button is shown while status.is_running
\* and disabled while stopRequested): setStopRequested(true), the timer of
\* stopTimeout is cleared, POST /api/stop is sent; the poll effect runs again
\* for the new stopRequested.
HandleStop ==
  /\ mounted
  /\ status.is_running
  /\ ~stopRequested
  /\ Len(stops) < MaxStops
  /\ HasFreeSlot(polls)
  /\ stopRequested' = TRUE
  /\ watchdogs' = ClearWatchdog(watchdogs, stopTimeout)
  /\ stops' = Append(stops, [stopRequested |-> stopRequested, is_running |-> status.is_running])
  /\ polls' = StartPoll(polls, liveSessionId, workspaceRoot, Ids(sessions), TRUE, stopTimeout)
  /\ pollSessions' = Ids(sessions)
  /\ pollTimer' = PollIntervalTicks
  /\ UNCHANGED <<viewVars, lateTick, mounted, stopTimeout, alerts, failedActions, pendingAtUnmount,
                 srvVars, storeVars, workspaceRoot, sessions, currentSessionId, liveSessionId,
                 status, timers, saveLogsTimeoutRef, puts, loadPhase, flushCount,
                 defaultCreates>>

\* /api/stop answers 'requested': the watchdog is scheduled with the closure
\* of the handleStop that was clicked, and setStopTimeout stores its handle;
\* the poll effect runs again for the new stopTimeout.
StopAccepted(i) ==
  LET w == FreeWatchdog(watchdogs, stopTimeout, polls)
      polls1 == StartPoll(polls, liveSessionId, workspaceRoot, Ids(sessions), stopRequested, w)
  IN /\ i \in DOMAIN stops
     /\ HasFreeWatchdog(watchdogs, stopTimeout, polls)
     /\ mounted => HasFreeSlot(polls)
     /\ stops' = RemoveAt(stops, i)
     /\ watchdogs' = [watchdogs EXCEPT ![w] = [active |-> TRUE,
                                               stopRequested |-> stops[i].stopRequested,
                                               is_running |-> stops[i].is_running]]
     /\ stopTimeout' = SetState(mounted, w, stopTimeout)
     /\ polls' = SetState(mounted, polls1, polls)
     /\ pollSessions' = SetState(mounted, Ids(sessions), pollSessions)
     /\ pollTimer' = SetState(mounted, PollIntervalTicks, pollTimer)
     /\ UNCHANGED <<viewVars, lateTick, mounted, stopRequested, alerts, failedActions, pendingAtUnmount,
                    srvVars, storeVars, workspaceRoot, sessions, currentSessionId,
                    liveSessionId, status, timers, saveLogsTimeoutRef, puts, loadPhase,
                    flushCount, defaultCreates>>

\* /api/stop answers something else (thrown = FALSE) or the request fails
\* (thrown = TRUE): an alert, and setStopRequested(false); the poll effect runs
\* again if stopRequested changed.
StopFailed(i, thrown) ==
  LET rerun == mounted /\ stopRequested
  IN /\ i \in DOMAIN stops
     /\ Len(failedActions) < MaxFailures
     /\ Len(alerts) < MaxAlerts
     /\ rerun => HasFreeSlot(polls)
     /\ stops' = RemoveAt(stops, i)
     /\ failedActions' = Append(failedActions, "stop")
     /\ alerts' = Append(alerts, IF thrown THEN "Failed to stop agent" ELSE "Error")
     /\ stopRequested' = SetState(mounted, FALSE, stopRequested)
     /\ polls' = IF rerun
                 THEN StartPoll(polls, liveSessionId, workspaceRoot, Ids(sessions), FALSE, stopTimeout)
                 ELSE polls
     /\ pollSessions' = IF rerun THEN Ids(sessions) ELSE pollSessions
     /\ pollTimer' = IF rerun THEN PollIntervalTicks ELSE pollTimer
     /\ UNCHANGED <<viewVars, lateTick, mounted, stopTimeout, watchdogs, pendingAtUnmount,
                    srvVars, storeVars, workspaceRoot, sessions, currentSessionId,
                    liveSessionId, status, timers, saveLogsTimeoutRef, puts, loadPhase,
                    flushCount, defaultCreates>>

\* The watchdog's callback runs: it reads stopRequested and status of its
\* closure, and warns if both hold.
WatchdogFire(w) ==
  LET warn == watchdogs[w].stopRequested /\ watchdogs[w].is_running
  IN /\ watchdogs[w].active
     /\ warn => Len(alerts) < MaxAlerts
     /\ alerts' = IF warn THEN Append(alerts, "The agent is taking a long time to stop")
                          ELSE alerts
     /\ watchdogs' = [watchdogs EXCEPT ![w] = IdleWatchdog]
     /\ UNCHANGED <<viewVars, lateTick, mounted, stopRequested, stopTimeout, stops, failedActions,
                    pendingAtUnmount, srvVars, storeVars, workspaceRoot, sessions, currentSessionId,
                 liveSessionId, status, timers, saveLogsTimeoutRef, pollSessions, pollTimer,
                 polls, puts, loadPhase, flushCount, defaultCreates>>

\* The component is unmounted: the cleanup of the poll effect clears the
\* interval.  The debounce timers pending now are noted.
Unmount ==
  /\ mounted
  /\ mounted' = FALSE
  /\ pendingAtUnmount' = {h \in DOMAIN timers : timers[h].active}
  /\ UNCHANGED <<viewVars, lateTick, stopRequested, stopTimeout, watchdogs, stops, alerts, failedActions,
                 srvVars, storeVars, workspaceRoot, sessions, currentSessionId,
                 liveSessionId, status, timers, saveLogsTimeoutRef, pollSessions, pollTimer,
                 polls, puts, loadPhase, flushCount, defaultCreates>>

AllWs == {BaseRoot} \cup UNION {ActiveWsForms(RunPath(id)) : id \in 1..MaxSessions}

NextConsole ==
  \/ AgentLog
  \/ AgentFinish
  \/ \E p \in 1..MaxPolls : ServerReply(p)
  \/ Tick
  \/ PollFire
  \/ \E p \in 1..MaxPolls : PollFail(p)
  \/ \E p \in 1..MaxPolls : PollReceive(p)
  \/ \E p \in 1..MaxPolls, ok \in BOOLEAN : FlushDone(p, ok)
  \/ \E h \in 1..MaxTimers : DebounceFire(h)
  \/ \E i \in 1..MaxPuts, ok \in BOOLEAN : PutDone(i, ok)
  \/ \E ok \in BOOLEAN : WorkspaceLoaded(ok)
  \/ \E ok \in BOOLEAN, okCreate \in BOOLEAN : LoadSessionsDone(ok, okCreate)
  \/ CreateSession
  \/ \E id \in 1..MaxSessions, okCreate \in BOOLEAN : DeleteSession(id, okCreate)
  \/ \E id \in 1..MaxSessions : SelectSession(id)
  \/ \E ws \in AllWs : StartRun(ws)
  \/ CreateSessionFail
  \/ \E id \in 1..MaxSessions : DeleteSessionFail(id)
  \/ HandleStop
  \/ \E i \in 1..MaxStops : StopAccepted(i)
  \/ \E i \in 1..MaxStops, thrown \in BOOLEAN : StopFailed(i, thrown)
  \/ \E w \in 1..MaxWatchdogs : WatchdogFire(w)
  \/ Unmount

----------------------------------------------------------------------------
\* The chat view.

\* The console hands the view a snapshot one entry longer.
NewLogs(log) ==
  /\ Len(shownLogs) < MaxEntries
  /\ shownLogs' = Append(shownLogs, log)
  /\ messages' = Classify(shownLogs', messages, enableHitl, collapsedStore)
  /\ steps' = DeriveStages(shownLogs', enableDeepResearch)
  /\ UNCHANGED <<consoleVars, lateTick, userVars, enableHitl, collapsedStore, enableDeepResearch>>

\* The console hands the view a new array with the same entries (every poll
\* of a run stores a new status.logs array).
SameLogs ==
  /\ shownLogs # <<>>
  /\ messages' = Classify(shownLogs, messages, enableHitl, collapsedStore)
  /\ steps' = DeriveStages(shownLogs, enableDeepResearch)
  /\ UNCHANGED <<consoleVars, lateTick, userVars, shownLogs, enableHitl, collapsedStore, enableDeepResearch>>

\* toggleCollapse(messages[k].id), from the header of a message with children.
ToggleCollapse(k) ==
  /\ k \in DOMAIN messages
  /\ messages[k].children # <<>>
  /\ LET id == messages[k].id
     IN /\ messages' = [j \in DOMAIN messages |->
                          IF messages[j].id = id
                          THEN [messages[j] EXCEPT !.collapsed = Negate(@)]
                          ELSE messages[j]]
        /\ collapsedStore' =
             [n \in 1..MaxStep |->
                IF \E j \in DOMAIN messages : messages[j].id = id /\ messages[j].stepId = n
                THEN LET j == CHOOSE j \in DOMAIN messages :
                                 /\ messages[j].id = id /\ messages[j].stepId = n
                                 /\ \A i \in (j + 1)..Len(messages) :
                                      ~(messages[i].id = id /\ messages[i].stepId = n)
                     IN IF Negate(messages[j].collapsed) = "true" THEN "1" ELSE "0"
                ELSE collapsedStore[n]]
  /\ UNCHANGED <<consoleVars, lateTick, userVars, shownLogs, enableHitl, progressVars>>

\* The HITL switch of the settings panel.
SetEnableHitl(checked) ==
  /\ checked # enableHitl
  /\ enableHitl' = checked
  /\ UNCHANGED <<consoleVars, lateTick, userVars, shownLogs, messages, collapsedStore, progressVars>>

\* The deep-research switch of the settings panel.
SetEnableDeepResearch(checked) ==
  /\ checked # enableDeepResearch
  /\ enableDeepResearch' = checked
  /\ steps' = DeriveStages(shownLogs, checked)
  /\ UNCHANGED <<consoleVars, lateTick, userVars, chatVars>>

NextChat ==
  \/ \E log \in Vocabulary : NewLogs(log)
  \/ SameLogs
  \/ \E k \in 1..MaxEntries : ToggleCollapse(k)
  \/ \E checked \in BOOLEAN : SetEnableHitl(checked)

Next == NextConsole \/ NextChat \/ \E checked \in BOOLEAN : SetEnableDeepResearch(checked)

Spec == Init /\ [][Next]_vars

----------------------------------------------------------------------------
\* The console with its registry loaded: the state the mount sequence leaves
\* when the session list arrived before the workspace root, a session is
\* selected, and the page was (re)loaded while a run was or was not active.
InitLoaded ==
  /\ store \in {[i \in 1..n |-> i] : n \in 1..MaxSessions}
  /\ nextId = Len(store) + 1
  /\ durable = [id \in 1..MaxSessions |-> InitialDurable]
  /\ srvRunning \in BOOLEAN
  /\ srvRun = IF srvRunning THEN 1 ELSE 0
  /\ srvLogLen = 0
  /\ srvActiveWs \in IF srvRunning
                     THEN {BaseRoot} \cup UNION {ActiveWsForms(RunPath(store[i])) : i \in DOMAIN store}
                     ELSE {Null}
  /\ workspaceRoot = BaseRoot
  /\ sessions = StoreSessions
  /\ currentSessionId \in {store[i] : i \in DOMAIN store}
  /\ liveSessionId = 0
  /\ status = [is_running |-> FALSE, logs |-> EmptyLogs]
  /\ timers = [h \in 1..MaxTimers |-> IdleTimer]
  /\ saveLogsTimeoutRef = 0
  /\ pollSessions = Ids(sessions)
  /\ pollTimer = PollIntervalTicks
  /\ polls = StartPoll(<<>>, 0, BaseRoot, Ids(sessions), FALSE, 0)
  /\ puts = <<>>
  /\ loadPhase = "done"
  /\ flushCount = 0
  /\ defaultCreates = <<>>
  /\ InitUser
  /\ InitView

\* Runs and their persistence, the registry being left alone.
NextRun ==
  \/ AgentLog
  \/ AgentFinish
  \/ \E p \in 1..MaxPolls : ServerReply(p)
  \/ Tick
  \/ PollFire
  \/ \E p \in 1..MaxPolls : PollFail(p)
  \/ \E p \in 1..MaxPolls : PollReceive(p)
  \/ \E p \in 1..MaxPolls, ok \in BOOLEAN : FlushDone(p, ok)
  \/ \E h \in 1..MaxTimers : DebounceFire(h)
  \/ \E i \in 1..MaxPuts, ok \in BOOLEAN : PutDone(i, ok)
  \/ \E ws \in AllWs : StartRun(ws)

SpecRun == InitLoaded /\ [][NextRun]_vars

\* The mount sequence and the registry, from construction, with the run the
\* page was loaded under (no new run is started).
NextSessions ==
  \/ AgentFinish
  \/ \E p \in 1..MaxPolls : ServerReply(p)
  \/ Tick
  \/ PollFire
  \/ \E p \in 1..MaxPolls : PollFail(p)
  \/ \E p \in 1..MaxPolls : PollReceive(p)
  \/ \E p \in 1..MaxPolls, ok \in BOOLEAN : FlushDone(p, ok)
  \/ \E h \in 1..MaxTimers : DebounceFire(h)
  \/ \E i \in 1..MaxPuts, ok \in BOOLEAN : PutDone(i, ok)
  \/ \E ok \in BOOLEAN : WorkspaceLoaded(ok)
  \/ \E ok \in BOOLEAN, okCreate \in BOOLEAN : LoadSessionsDone(ok, okCreate)
  \/ CreateSession
  \/ \E id \in 1..MaxSessions, okCreate \in BOOLEAN : DeleteSession(id, okCreate)
  \/ \E id \in 1..MaxSessions : SelectSession(id)

SpecSessions == Init /\ [][NextSessions]_vars

----------------------------------------------------------------------------
\* The stop of a run: a page loaded with its registry under a run, and the
\* user asking the run to stop.
InitStop == InitLoaded /\ srvRunning

NextStop ==
  \/ AgentFinish
  \/ \E p \in 1..MaxPolls : ServerReply(p)
  \/ Tick
  \/ PollFire
  \/ \E p \in 1..MaxPolls : PollFail(p)
  \/ \E p \in 1..MaxPolls : PollReceive(p)
  \/ \E p \in 1..MaxPolls, ok \in BOOLEAN : FlushDone(p, ok)
  \/ \E h \in 1..MaxTimers : DebounceFire(h)
  \/ \E i \in 1..MaxPuts, ok \in BOOLEAN : PutDone(i, ok)
  \/ HandleStop
  \/ \E i \in 1..MaxStops : StopAccepted(i)
  \/ \E i \in 1..MaxStops, thrown \in BOOLEAN : StopFailed(i, thrown)
  \/ \E w \in 1..MaxWatchdogs : WatchdogFire(w)

SpecStop == InitStop /\ [][NextStop]_vars

\* Runs and their persistence when every status request is answered, sooner
\* or later: the seconds that pass while a request is outstanding are noted.
NextLatency ==
  \/ AgentLog
  \/ AgentFinish
  \/ \E p \in 1..MaxPolls : ServerReply(p)
  \/ PromptTick
  \/ LateTick
  \/ PollFire
  \/ \E p \in 1..MaxPolls : PollReceive(p)
  \/ \E p \in 1..MaxPolls, ok \in BOOLEAN : FlushDone(p, ok)
  \/ \E h \in 1..MaxTimers : DebounceFire(h)
  \/ \E i \in 1..MaxPuts, ok \in BOOLEAN : PutDone(i, ok)
  \/ \E ws \in AllWs : StartRun(ws)

SpecLatency == InitLoaded /\ [][NextLatency]_vars

\* Runs and their persistence, with the console unmounted at some moment.
NextUnmount ==
  \/ AgentLog
  \/ AgentFinish
  \/ \E p \in 1..MaxPolls : ServerReply(p)
  \/ Tick
  \/ PollFire
  \/ \E p \in 1..MaxPolls : PollFail(p)
  \/ \E p \in 1..MaxPolls : PollReceive(p)
  \/ \E p \in 1..MaxPolls, ok \in BOOLEAN : FlushDone(p, ok)
  \/ \E h \in 1..MaxTimers : DebounceFire(h)
  \/ \E i \in 1..MaxPuts, ok \in BOOLEAN : PutDone(i, ok)
  \/ \E ws \in AllWs : StartRun(ws)
  \/ Unmount

SpecUnmount == InitLoaded /\ [][NextUnmount]_vars

\* The user's actions and their failures: a page loaded with its registry
\* under a run that belongs to no session (nothing is streamed into the
\* registry).
InitActions == InitLoaded /\ srvRunning /\ srvActiveWs = BaseRoot

NextActions ==
  \/ AgentFinish
  \/ \E p \in 1..MaxPolls : ServerReply(p)
  \/ Tick
  \/ PollFire
  \/ \E p \in 1..MaxPolls : PollFail(p)
  \/ \E p \in 1..MaxPolls : PollReceive(p)
  \/ CreateSession
  \/ CreateSessionFail
  \/ \E id \in 1..MaxSessions, okCreate \in BOOLEAN : DeleteSession(id, okCreate)
  \/ \E id \in 1..MaxSessions : DeleteSessionFail(id)
  \/ HandleStop
  \/ \E i \in 1..MaxStops : StopAccepted(i)
  \/ \E i \in 1..MaxStops, thrown \in BOOLEAN : StopFailed(i, thrown)
  \/ \E w \in 1..MaxWatchdogs : WatchdogFire(w)

SpecActions == InitActions /\ [][NextActions]_vars

----------------------------------------------------------------------------
\* The chat view alone, over an idle console with an empty store.  The
\* collapse preferences outlive the page: earlier visits left none, or left
\* every step expanded, or every step collapsed.
InitChat ==
  /\ InitConsole
  /\ store = <<>>
  /\ ~srvRunning
  /\ shownLogs = <<>>
  /\ messages = <<>>
  /\ enableHitl = TRUE
  /\ collapsedStore \in {[n \in 1..MaxStep |-> v] : v \in {"none", "0", "1"}}
  /\ enableDeepResearch = TRUE
  /\ steps = DeriveStages(<<>>, TRUE)

SpecChat == InitChat /\ [][NextChat]_vars

\* The chat view over snapshots of research, planning, execution and
\* agent-selection entries.
SelectionVocabulary ==
  {LogEntry({"Starting Deep Research"}, 0, "research"),
   LogEntry({"Deep Research Complete"}, 0, "research"),
   LogEntry({"Generating Plan"}, 0, "log"),
   LogEntry({"Plan Generated"}, 0, "log"),
   LogEntry({"Selected Agent:"}, 0, "log"),
   LogEntry({"Agent Selection"}, 0, "log"),
   LogEntry({"Selected Agent:", "Final Report"}, 0, "log"),
   LogEntry({"Step completed successfully"}, 0, "success"),
   LogEntry({}, 0, "log")}
  \cup {ExecutingStep(n) : n \in 1..MaxStep}

NextSelection ==
  \/ \E log \in SelectionVocabulary : NewLogs(log)
  \/ SameLogs
  \/ \E k \in 1..MaxEntries : ToggleCollapse(k)
  \/ \E checked \in BOOLEAN : SetEnableHitl(checked)

SpecSelection == InitChat /\ [][NextSelection]_vars

\* The chat view over snapshots with unexpected and failure entries: plain
\* text of several kinds, an 'Executing Step' text without a step number, and
\* 'Deep Research failed' under each kind the agent may log it with.
UnexpectedVocabulary ==
  {LogEntry({}, 0, "log"),
   LogEntry({}, 0, "warning"),
   LogEntry({"Executing Step"}, 0, "execution"),
   ExecutingStep(1),
   LogEntry({"Starting Deep Research"}, 0, "research"),
   LogEntry({"Step completed successfully"}, 0, "success"),
   LogEntry({"Deep Research failed"}, 0, "log"),
   LogEntry({"Deep Research failed"}, 0, "research"),
   LogEntry({"Deep Research failed"}, 0, "warning"),
   LogEntry({"Deep Research failed"}, 0, "error")}

NextUnexpected ==
  \/ \E log \in UnexpectedVocabulary : NewLogs(log)
  \/ SameLogs

SpecUnexpected == InitChat /\ [][NextUnexpected]_vars

----------------------------------------------------------------------------
\* The progress bar over snapshots of stage markers, with deep research on
\* or off in the configuration.
ProgressVocabulary ==
  {LogEntry({"Starting Agent System"}, 0, "log"),
   LogEntry({"Starting Deep Research"}, 0, "research"),
   LogEntry({"Deep Research Complete"}, 0, "research"),
   LogEntry({"Research findings saved"}, 0, "research"),
   LogEntry({"Deep Research failed"}, 0, "error"),
   LogEntry({"Generating Plan"}, 0, "log"),
   LogEntry({"Plan Generated"}, 0, "log"),
   LogEntry({"Executing Step"}, 1, "execution"),
   LogEntry({"Executing Step"}, 1, "error"),
   LogEntry({"Mission Complete"}, 0, "success"),
   LogEntry({}, 0, "log")}

InitProgress ==
  /\ InitConsole
  /\ store = <<>>
  /\ ~srvRunning
  /\ shownLogs = <<>>
  /\ messages = <<>>
  /\ enableHitl = TRUE
  /\ collapsedStore = NoPreference
  /\ enableDeepResearch \in BOOLEAN
  /\ steps = DeriveStages(<<>>, enableDeepResearch)

NextProgress ==
  \/ \E log \in ProgressVocabulary : NewLogs(log)
  \/ SameLogs
  \/ \E checked \in BOOLEAN : SetEnableDeepResearch(checked)

SpecProgress == InitProgress /\ [][NextProgress]_vars

----------------------------------------------------------------------------
\* Persistence claims (SpecRun).

NoTimerPending(ts) == \A h \in DOMAIN ts : ~ts[h].active
PendingFor(ts, id) == \E h \in DOMAIN ts : ts[h].active /\ ts[h].sid = id
FlushWrites(ps) == SelectSeq(ps, LAMBDA c : c.phase = "flush")
\* Durable writes to session id that await their response.
WritesInFlight(id) ==
  Len(SelectSeq(puts, LAMBDA w : w.sid = id))
    + Len(SelectSeq(polls, LAMBDA c : c.phase = "flush" /\ c.live = id))

\* C1: when debounced writes for the live session are pending (requested
\* within the quiet window, none fired) and a poll tick observes
\* is_running = false, that tick issues exactly one PUT, to the live session
\* and with the logs of the snapshot it observed, sends no debounced PUT, and
\* leaves no debounced write scheduled, so none of them can fire afterwards.
C1_DebounceThenFlush ==
  [][\A p \in DOMAIN polls :
       (PollReceive(p) /\ RunEnded(polls[p]) /\ polls[p].live = liveSessionId
          /\ PendingFor(timers, liveSessionId))
         => /\ NoTimerPending(timers')
            /\ puts' = puts
            /\ polls' = [polls EXCEPT ![p].phase = "flush"]
            /\ Len(FlushWrites(polls')) = Len(FlushWrites(polls)) + 1
            /\ polls'[p].live = liveSessionId
            /\ polls'[p].logs = status'.logs]_vars

\* C1 witness: the first flush PUT of a run end is in flight, the debounced
\* write that had been scheduled is cancelled and no debounced PUT was sent.
C1_Witness ==
  /\ flushCount = 1
  /\ Len(FlushWrites(polls)) = 1
  /\ saveLogsTimeoutRef # 0
  /\ NoTimerPending(timers)
  /\ puts = <<>>
  /\ ~srvRunning
  /\ FlushWrites(polls)[1].logs = Snap(srvRun, srvLogLen)
  /\ srvLogLen > 0

\* C2: for a run that was live in a session the run-end flush write is issued
\* exactly once; stated here is that it is never issued twice.
C2_FlushExactlyOnce == flushCount <= 1

\* C3: once the run-end flush of a run is stored for a session, no debounced
\* write stores a snapshot older than the flushed one for that session.
C3_FlushIsLast ==
  \A id \in 1..MaxSessions :
    (durable[id].flushed # NoSnap /\ durable[id].flushed[1] = srvRun)
      => ~(durable[id].kind = "debounced" /\ Older(durable[id].logs, durable[id].flushed))

\* C4: no two durable writes to the same session are in flight at once.
C4_OneWriteInFlight == \A id \in 1..MaxSessions : WritesInFlight(id) <= 1

----------------------------------------------------------------------------
\* Reconciliation and registry claims (SpecSessions).

\* b is a suffix of a (a = b included).
IsSuffixOf(b, a) == \E k \in 0..Len(a) : SubSeq(a, k + 1, Len(a)) = b
\* Base root + optional group + workspace id, separators normalized to '/'.
ComputedPath(root, id) ==
  NormalizeSep(root) \o <<"/">>
    \o (IF SessionGroup(id) = Null THEN <<>> ELSE NormalizeSep(SessionGroup(id)) \o <<"/">>)
    \o NormalizeSep(SessionWorkspace(id))
PathMatches(root, id, ws) == IsSuffixOf(ComputedPath(root, id), NormalizeSep(ws))
\* The first session of registry ids whose computed path matches ws, else 0.
FirstMatching(ids, root, ws) ==
  IF \E i \in DOMAIN ids : PathMatches(root, ids[i], ws)
  THEN ids[CHOOSE i \in DOMAIN ids :
             /\ PathMatches(root, ids[i], ws)
             /\ \A j \in 1..(i - 1) : ~PathMatches(root, ids[j], ws)]
  ELSE 0

\* C5: a tick that observes an active run, tracks no live session and knows the
\* workspace root adopts the first session, in the order of the registry it
\* consults, whose computed path equals the normalized active workspace or is
\* a suffix of it; when no session of that registry matches, it adopts none.
C5_AdoptsFirstMatch ==
  [][\A p \in DOMAIN polls :
       (PollReceive(p) /\ polls[p].running /\ polls[p].live = 0
          /\ polls[p].ws # Null /\ polls[p].root # Null)
         => LET expected == FirstMatching(polls[p].sess, polls[p].root, polls[p].ws)
            IN IF expected # 0 THEN liveSessionId' = expected
                               ELSE liveSessionId' = liveSessionId]_vars

\* C5 witness: the second session of the registry was adopted for a run whose
\* workspace was reported with a prefix; the first session did not match.
C5_Witness ==
  /\ Ids(sessions) = <<1, 2>>
  /\ pollSessions = <<1, 2>>
  /\ liveSessionId = 2
  /\ currentSessionId = 2
  /\ srvActiveWs = <<"d", "/">> \o NormalizeSep(RunPath(2))

\* C6: a tick that observes an active run while no live session is tracked,
\* the workspace root is known and the current registry holds a session that
\* matches the active workspace sets the live pointer to a matching session
\* and that session's cached log to the logs it observed.
C6_AdoptsFromCurrentRegistry ==
  [][\A p \in DOMAIN polls :
       (PollReceive(p) /\ polls[p].running /\ polls[p].ws # Null
          /\ liveSessionId = 0 /\ polls[p].live = 0
          /\ workspaceRoot # Null /\ polls[p].root # Null
          /\ \E i \in DOMAIN sessions : PathMatches(workspaceRoot, sessions[i].id, polls[p].ws))
         => /\ liveSessionId' # 0
            /\ PathMatches(workspaceRoot, liveSessionId', polls[p].ws)
            /\ \E i \in DOMAIN sessions' :
                 sessions'[i].id = liveSessionId' /\ sessions'[i].logs = polls[p].logs]_vars

\* C7: the default session is created at most once, and only while the
\* session store holds no session.
C7_DefaultOnceOnEmptyStore ==
  /\ Len(defaultCreates) <= 1
  /\ \A i \in DOMAIN defaultCreates : defaultCreates[i] = 0

----------------------------------------------------------------------------
\* The classifier's claims, checked under SpecChat.

\* A step in which the effect on [logs] runs.
ClassificationStep ==
  \/ \E log \in Vocabulary : NewLogs(log)
  \/ SameLogs

\* A forest without its ids.
WithoutIds(ms) ==
  [k \in DOMAIN ms |->
     [type |-> ms[k].type, content |-> ms[k].content, status |-> ms[k].status,
      collapsed |-> ms[k].collapsed,
      children |-> [j \in DOMAIN ms[k].children |->
                      [type |-> ms[k].children[j].type,
                       content |-> ms[k].children[j].content,
                       status |-> ms[k].children[j].status]]]]

\* C8: classifying the same snapshot a second time, with the first result as
\* the prior tree and the same preference store, gives the same forest: the
\* same nodes in the same order, with the same role, content, status,
\* collapsed flag and children.
C8_ClassifyTwiceSame ==
  [][ClassificationStep
       => WithoutIds(Classify(shownLogs', messages', enableHitl', collapsedStore'))
            = WithoutIds(messages')]_vars

\* A classified snapshot of a finished step with a substep, which a stored
\* preference keeps expanded, next to a message outside any step.
C8_Witness ==
  /\ Len(shownLogs) = MaxEntries
  /\ messages = Classify(shownLogs, messages, enableHitl, collapsedStore)
  /\ \E k \in DOMAIN messages :
       /\ messages[k].stepId # 0
       /\ messages[k].children # <<>>
       /\ messages[k].status = "success"
       /\ collapsedStore[messages[k].stepId] = "0"
       /\ messages[k].collapsed = "false"
  /\ \E k \in DOMAIN messages : messages[k].type = "agent"

HasBothPlanMarkers(log) ==
  Includes(log.message, "PLAN REVIEW") /\ Includes(log.message, "Plan Generated")
MatchesEarlierRule(msg) ==
  \E kw \in {"Starting Agent System", "Goal:", "Starting Deep Research",
             "Executing Deep Research", "Research findings saved",
             "Deep Research Complete", "Final Report"} : Includes(msg, kw)

\* The entry went to the plan-review rule: it is the new last substep of the
\* planning step, or, without a planning step, a new standalone message.
HandledAsPlanReview(before, after, log) ==
  LET k == FindPlanning(before)
  IN IF k # 0
     THEN /\ Len(after) = Len(before)
          /\ Len(after[k].children) = Len(before[k].children) + 1
          /\ after[k].children[Len(after[k].children)].type = "substep"
          /\ after[k].children[Len(after[k].children)].content = log.message
     ELSE /\ Len(after) = Len(before) + 1
          /\ after[Len(after)].type = "agent"
          /\ after[Len(after)].content = log.message
          /\ after[Len(after)].children = <<>>

\* C9 as stated: every log entry whose message contains both 'PLAN REVIEW'
\* and 'Plan Generated' is handled by the plan-review rule (a substep of the
\* planning step, or a standalone message when there is none), never dropped
\* as a plain plan-generated transition.
C9_EveryPlanReviewEntry ==
  [][\A log \in Vocabulary :
       (NewLogs(log) /\ HasBothPlanMarkers(log))
         => HandledAsPlanReview(StructuredMessages(shownLogs, messages, enableHitl),
                                messages', log)]_vars

\* C9: a log entry whose message contains both 'PLAN REVIEW' and 'Plan
\* Generated', and no marker of a rule that comes before the plan rules, is
\* handled by the plan-review rule (a substep of the planning step, or a
\* standalone message when there is none), never as a plain plan-generated
\* transition that produces no node.
C9_PlanReviewBeforePlanGenerated ==
  [][\A log \in Vocabulary :
       (NewLogs(log) /\ HasBothPlanMarkers(log) /\ ~MatchesEarlierRule(log.message))
         => HandledAsPlanReview(StructuredMessages(shownLogs, messages, enableHitl),
                                messages', log)]_vars

\* The last entry shown has both markers and is the substep of a planning
\* step, which it marked done.
C9_Witness ==
  /\ shownLogs # <<>>
  /\ HasBothPlanMarkers(shownLogs[Len(shownLogs)])
  /\ ~MatchesEarlierRule(shownLogs[Len(shownLogs)].message)
  /\ \E k \in DOMAIN messages :
       /\ messages[k].action = "planning"
       /\ messages[k].status = "success"
       /\ messages[k].children # <<>>
       /\ messages[k].children[Len(messages[k].children)].content
            = shownLogs[Len(shownLogs)].message

\* The four-entry snapshot of the grouping example, for step n.
GroupingSnapshot(n) ==
  <<LogEntry({"Starting Agent System"}, 0, "log"),
    ExecutingStep(n),
    LogEntry({"Selected Agent:"}, 0, "log"),
    LogEntry({"Step completed successfully"}, 0, "success")>>
Grouped(ms, n, collapsed) ==
  /\ Len(ms) = 2
  /\ ms[1].type = "system"
  /\ ms[1].content = GroupingSnapshot(n)[1].message
  /\ ms[2].type = "step"
  /\ ms[2].stepId = n
  /\ Len(ms[2].children) = 1
  /\ ms[2].children[1].content = GroupingSnapshot(n)[3].message
  /\ ms[2].status = "success"
  /\ ms[2].collapsed = collapsed

\* C10 as stated: for every step number n, with HITL disabled, the snapshot
\* of the grouping example classifies to exactly two top-level nodes: the
\* system message, then a step with group key n, exactly one substep, status
\* success and collapsed = true.
C10_GroupedAndCollapsed ==
  [][\A n \in 1..MaxStep :
       (ClassificationStep /\ shownLogs' = GroupingSnapshot(n) /\ ~enableHitl')
         => Grouped(messages', n, "true")]_vars

\* C10: for every step number n, with HITL disabled, the snapshot of the
\* grouping example classifies to exactly two top-level nodes: the system
\* message, then a step with group key n, exactly one substep and status
\* success; the step is collapsed unless the preference stored for n says
\* expanded.
C10_GroupedCollapsedUnlessPreference ==
  [][\A n \in 1..MaxStep :
       (ClassificationStep /\ shownLogs' = GroupingSnapshot(n) /\ ~enableHitl')
         => Grouped(messages', n, IF collapsedStore'[n] = "0" THEN "false" ELSE "true")]_vars

\* The example for the largest step number, classified with HITL off and no
\* preference stored for it.
C10_Witness ==
  /\ shownLogs = GroupingSnapshot(MaxStep)
  /\ ~enableHitl
  /\ collapsedStore[MaxStep] = "none"
  /\ Grouped(messages, MaxStep, "true")
  /\ messages = Classify(shownLogs, messages, enableHitl, collapsedStore)

----------------------------------------------------------------------------
\* The agent-selection claim, checked under SpecSelection.

IsAgentSelection(log) ==
  Includes(log.message, "Selected Agent:") \/ Includes(log.message, "Agent Selection")
MatchesRuleBeforeAgentSelection(msg) ==
  \/ MatchesEarlierRule(msg)
  \/ \E kw \in {"Generating Plan", "PLAN REVIEW", "Plan Generated", "Executing Step"} :
       Includes(msg, kw)
\* The step open at the end of a pass over ls is an execution step.
ExecutionOpen(ls) == CurrentIs(PassEnd(ls, <<>>, enableHitl), "execution")

----------------------------------------------------------------------------
\* The stage deriver's claims, checked under SpecProgress.

HasMarker(ls, kw) == \E i \in DOMAIN ls : Includes(ls[i].message, kw)

\* C12: with the research stage enabled, if any entry of the snapshot
\* contains 'Deep Research failed' then the research stage's status is error,
\* wherever the start, completion and findings-saved markers occur.
C12_ResearchFailIsError ==
  (enableDeepResearch /\ HasMarker(shownLogs, "Deep Research failed"))
    => StatusOf(steps, "research") = "error"

\* The failure marker comes first and the start and completion markers after
\* it; the stage shows error.
C12_Witness ==
  /\ enableDeepResearch
  /\ Len(shownLogs) >= 3
  /\ Includes(shownLogs[1].message, "Deep Research failed")
  /\ Includes(shownLogs[2].message, "Starting Deep Research")
  /\ Includes(shownLogs[3].message, "Deep Research Complete")
  /\ StatusOf(steps, "research") = "error"

Stages == {"init", "research", "planning", "execution", "complete"}
\* Status b is not behind status a in pending -> active -> {completed | error}.
NotBackwards(a, b) ==
  \/ a = b
  \/ a = "pending"
  \/ a = "active" /\ b \in {"completed", "error"}
  \/ a \in {"completed", "error"} /\ b \in {"completed", "error"}

\* C13: along an append-only sequence of snapshots with a fixed research
\* setting, the status derived for a stage never moves backwards in the order
\* pending -> active -> {completed | error}: a stage completed for a prefix
\* is never active or pending for a longer snapshot.
C13_StatusOnlyAdvances ==
  [][\A log \in ProgressVocabulary :
       NewLogs(log)
         => \A id \in Stages : NotBackwards(StatusOf(steps, id), StatusOf(steps', id))]_vars

----------------------------------------------------------------------------
\* The collapse claims, checked under SpecChat.

HasId(ms, id) == \E j \in DOMAIN ms : ms[j].id = id
\* The flag the claimed resolution order gives node m of the built forest.
ClaimedCollapsed(m, prev, storage) ==
  IF m.stepId # 0 /\ storage[m.stepId] # "none"
  THEN (IF storage[m.stepId] = "1" THEN "true" ELSE "false")
  ELSE IF HasId(prev, m.id) THEN PrevMapGet(prev, m.id)
  ELSE m.collapsed

C15_ToggleSurvivesRebuild ==
  [][\A k \in 1..MaxEntries :
       (ToggleCollapse(k) /\ messages[k].type = "step")
         => Classify(shownLogs', messages', enableHitl', collapsedStore')[k].collapsed
              = messages'[k].collapsed]_vars

----------------------------------------------------------------------------
\* The failure claims of polling and persistence, checked under SpecRun.

\* C16: a poll tick whose status request fails changes nothing: the stored
\* status snapshot, the session registry with every cached log, the live
\* pointer and any pending debounced write are as before, and the polling
\* timer keeps running with room for the next tick's request.
C16_FailedPollChangesNothing ==
  [][\A p \in 1..MaxPolls :
       PollFail(p)
         => /\ status' = status
            /\ sessions' = sessions
            /\ currentSessionId' = currentSessionId
            /\ liveSessionId' = liveSessionId
            /\ timers' = timers
            /\ saveLogsTimeoutRef' = saveLogsTimeoutRef
            /\ puts' = puts
            /\ pollTimer' = pollTimer
            /\ pollSessions' = pollSessions
            /\ HasFreeSlot(polls')]_vars

\* A status request is unanswered, and may fail, while a session is live,
\* its log is cached from an earlier tick and its debounced write is pending.
C16_Witness ==
  /\ liveSessionId # 0
  /\ status.is_running
  /\ status.logs # EmptyLogs
  /\ PendingFor(timers, liveSessionId)
  /\ \E p \in DOMAIN polls : polls[p].phase = "sent" /\ polls[p].live = liveSessionId

\* Something may still write session id's log: it is live, a tick that took
\* it for live is under way, or a debounced write of it is pending or sent.
WriteToCome(id, live, ps, ts, pts) ==
  \/ live = id
  \/ \E p \in DOMAIN ps : ps[p].live = id
  \/ PendingFor(ts, id)
  \/ \E i \in DOMAIN pts : pts[i].sid = id

\* C17: when the run-end flush of a session fails, with the final snapshot
\* not in the store, another write for that session is still to come: the
\* failed write is not the last attempt to persist the final snapshot.
C17_FailedFlushRetried ==
  [][\A p \in 1..MaxPolls :
       (FlushDone(p, FALSE) /\ InSeq(polls[p].live, store)
          /\ durable[polls[p].live].logs # polls[p].logs)
         => WriteToCome(polls[p].live, liveSessionId', polls', timers', puts')]_vars

----------------------------------------------------------------------------
\* C18.

\* A user action fails: createSession, deleteSession or handleStop.
FailedUserAction ==
  \/ CreateSessionFail
  \/ \E id \in 1..MaxSessions : DeleteSessionFail(id)
  \/ \E i \in 1..MaxStops, thrown \in BOOLEAN : StopFailed(i, thrown)

\* C18: every failed user action (create session, delete session, stop run)
\* shows an alert to the user, leaves the session registry (the list, the
\* selection, the live pointer, and the store behind them) unchanged, and
\* sends no request again.
C18_FailedActionAlerts ==
  [][FailedUserAction =>
       /\ Len(alerts') = Len(alerts) + 1
       /\ sessions' = sessions
       /\ currentSessionId' = currentSessionId
       /\ liveSessionId' = liveSessionId
       /\ store' = store
       /\ Len(stops') <= Len(stops)]_vars

----------------------------------------------------------------------------
\* C19.

\* The status requests sent and not yet answered.
RequestsSent(ps) == {p \in DOMAIN ps : ps[p].phase = "sent"}

\* C19: once the console is unmounted, no poll tick runs again (no status
\* request is sent) and no debounced write that was pending at the unmount is
\* performed.
C19_NoTimerActsAfterUnmount ==
  [][~mounted =>
       /\ Cardinality(RequestsSent(polls')) <= Cardinality(RequestsSent(polls))
       /\ \A h \in 1..MaxTimers : DebounceFire(h) => h \notin pendingAtUnmount]_vars

----------------------------------------------------------------------------
\* C20.

Warning == "The agent is taking a long time to stop"
WatchdogPending(ws) == \E w \in DOMAIN ws : ws[w].active

\* The watchdog leaves the run state, the live pointer, the registry and the
\* polling loop alone.
WatchdogOnlyWarns ==
  \A w \in 1..MaxWatchdogs :
    WatchdogFire(w) => /\ status' = status
                       /\ liveSessionId' = liveSessionId
                       /\ sessions' = sessions
                       /\ currentSessionId' = currentSessionId
                       /\ store' = store
                       /\ polls' = polls
                       /\ pollTimer' = pollTimer
                       /\ stopRequested' = stopRequested

\* Expiring while the run is active and the stop pending, it warns.
WatchdogWarnsWhenPending ==
  \A w \in 1..MaxWatchdogs :
    (WatchdogFire(w) /\ status.is_running /\ stopRequested) => alerts' = Append(alerts, Warning)

\* A poll tick that observes the run ended leaves no watchdog pending.
WatchdogCancelledAtRunEnd ==
  \A p \in 1..MaxPolls :
    (PollReceive(p) /\ ~polls[p].running) => ~WatchdogPending(watchdogs')

\* C20: the stop watchdog never changes the run state, the live pointer, the
\* session registry or the polling loop; when it expires with the run still
\* active and the stop still pending it shows a warning; and the first poll
\* tick that observes the run ended cancels it.
C20_WatchdogOnlyWarns ==
  [][WatchdogOnlyWarns /\ WatchdogWarnsWhenPending /\ WatchdogCancelledAtRunEnd]_vars

----------------------------------------------------------------------------
\* C21, checked under SpecProgress.

\* The positions of the entries that contain one of the markers kws.
Positions(ls, kws) == {i \in DOMAIN ls : \E kw \in kws : Includes(ls[i].message, kw)}
Last(ps) == CHOOSE i \in ps : \A j \in ps : j <= i
\* The status the rule gives a stage with start markers starts and finish
\* markers finishes.
StageRule(ls, starts, finishes) ==
  IF Positions(ls, starts) = {} THEN "pending"
  ELSE IF Positions(ls, finishes) # {}
          /\ Last(Positions(ls, finishes)) >= Last(Positions(ls, starts))
       THEN "completed"
       ELSE "active"
StartedBeforeFinish(ls, starts, finishes) ==
  \E i \in Positions(ls, starts) : \E j \in Positions(ls, finishes) : i <= j

ResearchStart == {"Starting Deep Research"}
ResearchFinish == {"Deep Research Complete", "Research findings saved"}
PlanStart == {"Generating Plan"}
PlanFinish == {"Plan Generated"}

\* C21: for a snapshot without 'Deep Research failed', the research stage
\* (when shown) and the planning stage are pending when the start marker is
\* absent, completed when the last finish marker is at or after the last
\* start marker, and active otherwise; a completed stage has a start marker
\* at or before a finish marker.
C21_StageStatusRule ==
  ~HasMarker(shownLogs, "Deep Research failed") =>
    /\ enableDeepResearch =>
          StatusOf(steps, "research") = StageRule(shownLogs, ResearchStart, ResearchFinish)
    /\ StatusOf(steps, "planning") = StageRule(shownLogs, PlanStart, PlanFinish)
    /\ StatusOf(steps, "research") = "completed" =>
          StartedBeforeFinish(shownLogs, ResearchStart, ResearchFinish)
    /\ StatusOf(steps, "planning") = "completed" =>
          StartedBeforeFinish(shownLogs, PlanStart, PlanFinish)

\* Research started and finished, planning finished and then started again:
\* research is completed and planning active.
C21_Witness ==
  /\ enableDeepResearch
  /\ Len(shownLogs) = 4
  /\ Includes(shownLogs[1].message, "Starting Deep Research")
  /\ Includes(shownLogs[2].message, "Research findings saved")
  /\ Includes(shownLogs[3].message, "Plan Generated")
  /\ Includes(shownLogs[4].message, "Generating Plan")
  /\ StatusOf(steps, "research") = "completed"
  /\ StatusOf(steps, "planning") = "active"

----------------------------------------------------------------------------
\* C22, checked under SpecProgress.

\* C22: a snapshot with a 'Mission Complete' entry has the complete stage
\* completed and the execution stage not pending; a snapshot without one has
\* the complete stage pending.
C22_GlobalCompletion ==
  IF HasMarker(shownLogs, "Mission Complete")
  THEN /\ StatusOf(steps, "complete") = "completed"
       /\ StatusOf(steps, "execution") # "pending"
  ELSE StatusOf(steps, "complete") = "pending"

\* 'Mission Complete' with no execution entry, followed by other entries:
\* the execution stage was forced to completed.
C22_Witness ==
  /\ Len(shownLogs) >= 2
  /\ Includes(shownLogs[1].message, "Mission Complete")
  /\ ~HasMarker(shownLogs, "Executing Step")
  /\ StatusOf(steps, "complete") = "completed"
  /\ StatusOf(steps, "execution") = "completed"

----------------------------------------------------------------------------
\* C23, checked under SpecChat.

PlanningSteps(ms) == {k \in DOMAIN ms : ms[k].action = "planning"}
\* The most recent planning step of a forest; 0 when there is none.
LastPlanning(ms) ==
  IF PlanningSteps(ms) = {} THEN 0
  ELSE CHOOSE k \in PlanningSteps(ms) : \A j \in PlanningSteps(ms) : j <= k

\* C23: a 'PLAN REVIEW' entry that reaches the plan-review rule becomes the
\* new last substep of the most recent planning step of the forest built so
\* far and sets that step's status to success; the earlier planning steps
\* get no substep.
C23_ReviewGoesToLatestPlanning ==
  [][\A log \in Vocabulary :
       LET before == StructuredMessages(shownLogs, messages, enableHitl)
           k == LastPlanning(before)
       IN (/\ NewLogs(log)
           /\ Includes(log.message, "PLAN REVIEW")
           /\ ~MatchesEarlierRule(log.message)
           /\ k # 0)
            => /\ Len(messages'[k].children) = Len(before[k].children) + 1
               /\ messages'[k].children[Len(messages'[k].children)].content = log.message
               /\ messages'[k].status = "success"
               /\ \A j \in PlanningSteps(before) \ {k} :
                     messages'[j].children = before[j].children]_vars

----------------------------------------------------------------------------
\* C24, checked under SpecChat.

\* The steps of a forest whose closing marker has been processed: the rules
\* of the closing markers (research completion, plan generated, plan review,
\* step completion) are the only ones that set a step's status to success.
ClosedSteps(ms) == {k \in DOMAIN ms : ms[k].type = "step" /\ ms[k].status = "success"}

\* C24: an entry appended to the snapshot gives no child to, and does not
\* change the status of, a step whose closing marker was processed before it.
C24_ClosedStepTakesNoChildren ==
  [][\A log \in Vocabulary :
       LET before == StructuredMessages(shownLogs, messages, enableHitl)
       IN NewLogs(log)
            => \A k \in ClosedSteps(before) :
                 /\ messages'[k].children = before[k].children
                 /\ messages'[k].status = before[k].status]_vars

----------------------------------------------------------------------------
\* C25, checked under SpecUnexpected.

\* The markers of the rules before the fallback, 'Executing Step' apart.
RuleMarkers ==
  {"Starting Agent System", "Goal:", "Starting Deep Research", "Executing Deep Research",
   "Research findings saved", "Deep Research Complete", "Deep Research failed",
   "Final Report", "Generating Plan", "PLAN REVIEW", "Plan Generated", "Selected Agent:",
   "Agent Selection", "Step completed successfully", "CHECK MARK", "Mission Complete",
   "Final report saved to"}
\* The entry matches no marker rule: no marker text, no error or input-request
\* kind, and no 'Executing Step' with a step number.
Unexpected(log) ==
  /\ \A kw \in RuleMarkers : ~Includes(log.message, kw)
  /\ log.type \notin {"error", "input_request"}
  /\ Includes(log.message, "Executing Step") => StepMatch(log.message) = 0

\* C25: an entry that matches no marker rule, an 'Executing Step' text
\* without a step number included, yields exactly one node: a new standalone
\* agent message when no step is open, otherwise a new last substep of the
\* open step.
C25_UnexpectedTextKept ==
  [][\A log \in UnexpectedVocabulary :
       LET end == PassEnd(shownLogs, messages, enableHitl)
           before == end.structuredMessages
           cur == end.currentStep
       IN (NewLogs(log) /\ Unexpected(log))
            => IF cur = 0
               THEN /\ Len(messages') = Len(before) + 1
                    /\ messages'[Len(messages')].type = "agent"
                    /\ messages'[Len(messages')].content = log.message
               ELSE /\ Len(messages') = Len(before)
                    /\ Len(messages'[cur].children) = Len(before[cur].children) + 1
                    /\ messages'[cur].children[Len(messages'[cur].children)].content
                         = log.message]_vars

----------------------------------------------------------------------------
\* C26, checked under SpecUnexpected.

\* C26: an entry containing 'Deep Research failed' that is processed while a
\* step is open sets that step's status to error, whatever the entry's kind.
C26_ResearchFailureMarksStep ==
  [][\A log \in UnexpectedVocabulary :
       LET cur == PassEnd(shownLogs, messages, enableHitl).currentStep
       IN (NewLogs(log) /\ Includes(log.message, "Deep Research failed") /\ cur # 0)
            => messages'[cur].status = "error"]_vars

----------------------------------------------------------------------------
\* C27, checked under SpecRun.

\* The cached log of session id in registry ss; NoSnap when it is not there.
CachedLog(ss, id) ==
  IF \E i \in DOMAIN ss : ss[i].id = id
  THEN ss[CHOOSE i \in DOMAIN ss : ss[i].id = id].logs
  ELSE NoSnap
NoSessionMatches(ss, root, ws) ==
  ws = Null \/ root = Null \/ \A i \in DOMAIN ss : ~PathMatches(root, ss[i].id, ws)
NoFlush(ps) == \A q \in DOMAIN ps : ps[q].phase # "flush"

\* C27: a poll tick that tracks no live session, while no session of the
\* registry matches the active workspace it observed, changes no session's
\* cached log, schedules no debounced write and sends no write; a poll tick
\* that tracks a live session leaves the cached log of every other session
\* unchanged.
C27_UnattachedRunTouchesNoSession ==
  [][\A p \in 1..MaxPolls :
       PollReceive(p) =>
         /\ (polls[p].live = 0 /\ NoSessionMatches(sessions, workspaceRoot, polls[p].ws))
              => /\ \A id \in 1..MaxSessions : CachedLog(sessions', id) = CachedLog(sessions, id)
                 /\ timers' = timers
                 /\ puts' = puts
                 /\ durable' = durable
                 /\ NoFlush(polls) => NoFlush(polls')
         /\ polls[p].live # 0
              => \A id \in 1..MaxSessions \ {polls[p].live} :
                   CachedLog(sessions', id) = CachedLog(sessions, id)]_vars

\* A run under no session's workspace has been observed with its log: no
\* session is live, every cached log is empty, nothing is scheduled or sent.
C27_Witness ==
  /\ status.is_running
  /\ status.logs # EmptyLogs
  /\ liveSessionId = 0
  /\ NoSessionMatches(sessions, workspaceRoot, srvActiveWs)
  /\ Len(sessions) = MaxSessions
  /\ \A i \in DOMAIN sessions : sessions[i].logs = EmptyLogs
  /\ NoTimerPending(timers)
  /\ puts = <<>>

----------------------------------------------------------------------------
\* C28, checked under SpecSessions.

\* C28: the live pointer is null or the id of a session of the registry.
C28_LivePointerInRegistry ==
  liveSessionId = 0 \/ InSeq(liveSessionId, Ids(sessions))

----------------------------------------------------------------------------
\* C29, checked under SpecLatency.

\* C29 as stated: while a session is live and the ticks succeed, no debounced
\* write is sent, and the store is written only by the run-end flush.
C29_NoDebouncedWriteWhileLive ==
  [][/\ \A h \in 1..MaxTimers : DebounceFire(h) => liveSessionId = 0
     /\ durable' # durable => \E p \in 1..MaxPolls : FlushDone(p, TRUE)]_vars

\* C29: as long as every status and flush request has been answered within
\* the second it was sent in, no debounced write is sent while a session is
\* live, and the store is written only by the run-end flush.
C29_NoDebouncedWriteWhilePrompt ==
  [][~lateTick' =>
       /\ \A h \in 1..MaxTimers : DebounceFire(h) => liveSessionId = 0
       /\ durable' # durable => \E p \in 1..MaxPolls : FlushDone(p, TRUE)]_vars

\* A run streamed its log into a session and ended with every request
\* answered in time: the store holds the final log, written by the flush.
C29_Witness ==
  /\ ~lateTick
  /\ ~srvRunning
  /\ srvLogLen = MaxLogLen
  /\ liveSessionId = 0
  /\ \E id \in 1..MaxSessions :
       /\ durable[id].kind = "flush"
       /\ durable[id].logs = Snap(srvRun, srvLogLen)

----------------------------------------------------------------------------
\* The execution stage and the completion marker, checked under SpecProgress.

\* C30: for every snapshot that contains an entry with 'Executing Step', the
\* execution stage's status is active or error and never completed, also when
\* a later 'Mission Complete' entry is present; the execution stage is
\* completed only for snapshots that contain 'Mission Complete' and no
\* 'Executing Step' entry.
C30_StartedExecutionNeverCompleted ==
  /\ HasMarker(shownLogs, "Executing Step")
       => StatusOf(steps, "execution") \in {"active", "error"}
  /\ StatusOf(steps, "execution") = "completed"
       => /\ HasMarker(shownLogs, "Mission Complete")
          /\ ~HasMarker(shownLogs, "Executing Step")

\* A step is announced, the mission then completes: the complete stage is
\* completed while the execution stage stays active.
C30_Witness ==
  /\ \E i, j \in DOMAIN shownLogs :
        /\ i < j
        /\ Includes(shownLogs[i].message, "Executing Step")
        /\ Includes(shownLogs[j].message, "Mission Complete")
  /\ StatusOf(steps, "execution") = "active"
  /\ StatusOf(steps, "complete") = "completed"
====
